---------------------------- MODULE Spec2Model ----------------------------
(***************************************************************************)
(* Verification model of the EDA beamformer control code:                  *)
(*   - the Kaelus link protocol engine of beamformer.py (Write, GetPacket, *)
(*     ProcessPacket, OpenConnection, CloseConnection, SendAck, Reconnect, *)
(*     DoCommand, the typed commands and the two checksums);               *)
(*   - the delay solvers calc_delays and calc_Kdelays of pointing.py;      *)
(*   - the threads of kaeslave.py on the two sessions.                     *)
(*                                                                         *)
(* The specifications share the variables:                                 *)
(*   Spec          the link state machine of one Beamformer session        *)
(*   SpecCodec     Write followed by GetPacket on one frame (byte level)   *)
(*   SpecCodecLive SpecCodec on a noisy line, with fair reads              *)
(*   SpecCk        the checksum functions applied to drawn byte strings    *)
(*   SpecSolve     calc_delays applied to drawn position tables            *)
(*   SpecPure      calc_delays called again on the same arguments          *)
(*   SpecZenith    calc_delays at el = 90 on tables with dipole heights    *)
(*   SpecKSolve    calc_Kdelays applied to drawn input tables              *)
(*   SpecThreads   doPointing's threads and a LogAlarms caller             *)
(*   SpecPoint     doPointing alone on devices that may never answer       *)
(*   SpecRead      typed commands that read a value, on a dying device     *)
(*   SpecRace      two doPointing requests served at the same time         *)
(*                                                                         *)
(* Bytes are naturals 0..255, Python strings are sequences of bytes.       *)
(***************************************************************************)
EXTENDS Integers, Sequences, FiniteSets, TLC

VARIABLES
    \* ---- Beamformer session (beamformer.py) ----
    pc,              \* position of the thread inside the session's methods
    caller,          \* who called OpenConnection/CloseConnection: "user" or "Reconnect"
    op,              \* the typed command in progress ("none" when idle)
    Message,         \* self.Message
    LastCommand,     \* self.LastCommand
    LastRxCommand,   \* self.LastRxCommand
    RxLength,        \* self.RxLength
    RxMessage,       \* self.RxMessage
    SequenceNumber,  \* self.SequenceNumber
    AckNumber,       \* self.AckNumber
    rxflags,         \* self.SYN, self.ACK, self.FIN, self.RST, self.EOR, self.SO
    ok,              \* local ok of DoCommand: "True", "False" or "None"
    tries,           \* local tries of DoCommand
    ChannelDelay,    \* self.ChannelDelay
    ChannelDelayRead,\* self.ChannelDelayRead
    ret,             \* value returned by the last typed command
    dead,            \* transport on which every read times out
    faults,          \* reads the transport has failed so far
    \* ---- history of the DoCommand call in progress ----
    cmdFrame,        \* the frame the typed command built before calling DoCommand
    cmdWrites,       \* attempts of this DoCommand that transmitted cmdFrame
    reconnects,      \* Reconnect() calls completed inside this DoCommand
    lastStep,        \* last thing this DoCommand did: "attempt" or "reconnect"
    okFrame,         \* the frame whose response made ok True
    lastRx,          \* the packet the most recent ProcessPacket got from GetPacket
    \* ---- frame codec (Write / GetPacket at byte level) ----
    gpc,             \* position inside Write/GetPacket
    frame,           \* the unescaped frame handed to Write
    wire,            \* bytes written to the port and not yet read back
    data,            \* local data of GetPacket
    inchars,         \* local inchars of GetPacket
    leftovers,       \* self.leftovers
    totlength,       \* local totlength of GetPacket
    timeouts,        \* local timeouts of GetPacket
    packet,          \* value returned by GetPacket
    stalled,         \* a read returned nothing although bytes were still to come
    reads,           \* outcomes of the last two reads of this GetPacket call
    \* ---- connection timing and outcome ----
    sinceClose,      \* time.time() - self.closetime in seconds, counted up to CoolDown
    versionGap,      \* <<sinceClose when OpenConnection was entered, sinceClose when it
                     \* wrote the version bytes>> of the last OpenConnection
    openOutcome,     \* what the last OpenConnection obtained: "none", "opening",
                     \* "badversion", "failed", "ok"
    \* ---- checksums ----
    ckdata,          \* argument of the checksum functions
    cks,             \* the strings returned: c8 by ComputeChecksum8, c16 by ComputeChecksum16
                     \* (empty while not computed)
    \* ---- delay solver (pointing.py) ----
    spc,             \* position in calc_delays: "call", "loop", "final", "returned"
    work,            \* locals of calc_delays: bfid, delays, idelays, K (idelays[bfid]['K'])
    args,            \* arguments of calc_delays
    result,          \* value returned by calc_delays
    calls,           \* the values returned by the calls made so far on the same arguments
    \* ---- threads of kaeslave.py on the two sessions X and Y ----
    tstate,          \* per thread: "new", "running", "finished", "raised"
    tstack,          \* per thread: its call stack, one frame per method being run
    lockOwner,       \* per session: the thread holding self.lock ("none" when free)
    lockCount,       \* per session: the recursion level of the RLock
    tfaults,         \* failed exchanges so far
    mpc,             \* position of the caller's thread in doPointing
    mret,            \* value returned by doPointing
    deadPol,         \* the sessions whose device never answers
    cmdFailed,       \* the threads in which SetDelaySwitches or UpdateDelays returned False
    \* ---- values read from the device (beamformer.py) ----
    FirmwareVersion, \* self.FirmwareVersion
    readBefore,      \* the last-read values when the typed command in progress was called
    \* ---- concurrent doPointing requests (kaeslave.py) ----
    rpc,             \* per request: position of its thread in doPointing
    rtable,          \* per request: xdelays['K'], the second-stage delays it computed
    polDelay,        \* per session: self.X.ChannelDelay, self.Y.ChannelDelay
    rthread,         \* per request and session: position of the pointing thread
    rlock,           \* per session: the pointing thread that holds pol.lock
    rsent            \* per request and session: the table its thread transmitted

protoVars == <<pc, caller, op, Message, LastCommand, LastRxCommand, RxLength, RxMessage,
               SequenceNumber, AckNumber, rxflags, ok, tries, ChannelDelay,
               ChannelDelayRead, ret, dead, faults>>
histVars  == <<cmdFrame, cmdWrites, reconnects, lastStep, okFrame, lastRx>>
openVars  == <<sinceClose, versionGap, openOutcome>>
codecVars == <<gpc, frame, wire, data, inchars, leftovers, totlength, timeouts, packet,
               stalled, reads>>
ckVars    == <<ckdata, cks>>
solveVars == <<spc, args, work, result, calls>>
threadVars == <<tstate, tstack, lockOwner, lockCount, tfaults, mpc, mret, deadPol, cmdFailed>>
readVars  == <<FirmwareVersion, readBefore>>
raceVars  == <<rpc, rtable, polDelay, rthread, rlock, rsent>>
vars      == <<protoVars, histVars, openVars, codecVars, ckVars, solveVars, threadVars,
               readVars, raceVars>>

-----------------------------------------------------------------------------
(* Bitfield constants in the control byte, beamformer.py lines 10-17 *)
SYN == 128
ACK == 64
FIN == 32
RST == 16
SN == 8
AN == 4
EOR == 2
SO == 1

StartByte  == 126   \* '\x7e'
EscapeByte == 125   \* '\x7d'
EscStart   == 94    \* '\x5e'
EscEscape  == 93    \* '\x5d'

MaxTries == 10      \* retry budget of DoCommand

\* Python's (c & bit == bit) for a one-bit mask
HasBit(c, bit) == (c \div bit) % 2 = 1

RECURSIVE SumBytes(_)
SumBytes(s) == IF s = <<>> THEN 0 ELSE Head(s) + SumBytes(Tail(s))

-----------------------------------------------------------------------------
(* Checksums *)

\* ComputeChecksum8 with the overflow test off by one (cs >= 255)
ComputeChecksum8_OffByOne(d) ==
    LET cs == SumBytes(d) IN
    IF cs >= 255
    THEN LET overflow == cs \div 256 IN cs + (overflow - overflow * 256)
    ELSE ((-cs) - 1) % 256

\* ComputeChecksum8: the code point of the character returned by chr(cs)
ComputeChecksum8(d) ==
    LET cs == SumBytes(d) IN
    IF cs > 255
    THEN LET overflow == cs \div 256 IN cs + (overflow - overflow * 256)
    ELSE ((-cs) - 1) % 256         \* ~cs & 255

\* one term of the for loop of ComputeChecksum16, for i = 2 * w (0-based)
Word16(d, w) ==
    LET i == 2 * w + 1
    IN IF (Len(d) % 2 = 1) /\ (i = Len(d)) THEN d[i] ELSE d[i + 1] * 256 + d[i]

\* the sum the for loop accumulates over the words lo..hi (summed by halves)
RECURSIVE WordSum16(_, _, _)
WordSum16(d, lo, hi) ==
    IF lo > hi THEN 0
    ELSE IF lo = hi THEN Word16(d, lo)
    ELSE LET mid == (lo + hi) \div 2
         IN WordSum16(d, lo, mid) + WordSum16(d, mid + 1, hi)

\* ComputeChecksum16: the two bytes returned, low byte first
ComputeChecksum16(d) ==
    LET cs0 == WordSum16(d, 0, ((Len(d) + 1) \div 2) - 1)
        cs1 == IF cs0 >= 65536
               THEN LET overflow == cs0 \div 65536 IN cs0 + (overflow - overflow * 65536)
               ELSE cs0
        cs2 == ((-cs1) - 1) + 65536    \* ~cs + 65536
    IN <<cs2 % 256, (cs2 % 65536) \div 256>>

getControlByte(flags, sn, an) == flags + (SN * sn) + (AN * an)

CompileSmallMessage(control, command, length) ==
    LET message == <<StartByte, control, command, length>>
    IN Append(message, ComputeChecksum8(Tail(message)))


-----------------------------------------------------------------------------
(* ProcessPacket, as a function of the packet GetPacket returned *)

\* lines 373-390: the (SequenceNumber, AckNumber) the control byte selects
SeqAckFromControl_Swapped(Control) ==
    LET sn == HasBit(Control, SN)
        an == HasBit(Control, AN)
    IN IF sn THEN (IF an THEN <<0, 0>> ELSE <<1, 0>>)
       ELSE (IF an THEN <<1, 1>> ELSE <<0, 1>>)

SeqAckFromControl(Control) ==
    LET sn == HasBit(Control, SN)
        an == HasBit(Control, AN)
    IN IF sn THEN (IF an THEN <<1, 0>> ELSE <<0, 0>>)
       ELSE (IF an THEN <<1, 1>> ELSE <<0, 1>>)

NoFlags == [SYN |-> FALSE, ACK |-> FALSE, FIN |-> FALSE, RST |-> FALSE,
            EOR |-> FALSE, SO |-> FALSE]

\* line 364: the checksum of the header data[1:4] differs from data[4]
HeaderChecksumWrong(d) == ComputeChecksum8(SubSeq(d, 2, 4)) # d[5]

\* lines 397-398: the checksum of the payload differs from its last two bytes
PayloadChecksumWrong(d) ==
    /\ d[4] > 0 /\ Len(d) >= 7
    /\ ComputeChecksum16(SubSeq(d, 6, Len(d) - 2)) # SubSeq(d, Len(d) - 1, Len(d))

\* lines 365-366 and 399-400: a wrong checksum is logged; the return that
\* follows each log is commented out, so ProcessPacket goes on
RejectsBadChecksum_Return(d) == HeaderChecksumWrong(d) \/ PayloadChecksumWrong(d)

RejectsBadChecksum(d) == FALSE

\* The values ProcessPacket leaves in the session and the value it returns,
\* for the packet d (1-based: d[1] is the start byte, d[2] the control byte).
\* ok is "AssertionError" when the assert of line 396 raises instead.
ProcessPacket(d) ==
    IF Len(d) < 5 \/ RejectsBadChecksum(d)
    THEN [ok |-> "None", flags |-> NoFlags, RxMessage |-> <<>>,
          SequenceNumber |-> SequenceNumber, AckNumber |-> AckNumber,
          RxLength |-> RxLength, LastRxCommand |-> LastRxCommand]
    ELSE LET Control   == d[2]
             sa        == SeqAckFromControl(Control)
             rxlen     == d[4]
             rxmessage == SubSeq(d, 6, Len(d))
             asserts   == rxlen > 0 /\ Len(rxmessage) # rxlen + 2     \* line 396 fails
             lastrx    == IF asserts THEN LastRxCommand
                          ELSE IF rxlen > 0 THEN rxmessage[1] ELSE d[3]
         IN [ok |-> IF asserts THEN "AssertionError"
                    ELSE IF LastCommand = lastrx THEN "True" ELSE "False",
             flags |-> [SYN |-> HasBit(Control, SYN),
                        ACK |-> HasBit(Control, ACK),
                        FIN |-> HasBit(Control, FIN),
                        RST |-> HasBit(Control, RST),
                        EOR |-> HasBit(Control, EOR),
                        SO  |-> HasBit(Control, SO)],
             RxMessage |-> IF rxlen > 0 THEN rxmessage ELSE <<>>,
             SequenceNumber |-> sa[1], AckNumber |-> sa[2],
             RxLength |-> rxlen, LastRxCommand |-> lastrx]

\* Write sets LastCommand from the unescaped data it is given (lines 285-288)
WriteLastCommand(d) == IF Len(d) > 5 THEN d[6] ELSE d[3]

VersionBytes == <<165, 165, 165>>     \* '\xa5\xa5\xa5'

-----------------------------------------------------------------------------
(* Escaping and framing, as Write and GetPacket compute them *)

\* Python's s.replace(chr(a), r) for a one-byte pattern (computed by halves)
RECURSIVE Replace1(_, _, _)
Replace1(s, a, r) ==
    IF s = <<>> THEN <<>>
    ELSE IF Len(s) = 1 THEN (IF s[1] = a THEN r ELSE s)
    ELSE LET mid == Len(s) \div 2
         IN Replace1(SubSeq(s, 1, mid), a, r) \o Replace1(SubSeq(s, mid + 1, Len(s)), a, r)

\* Python's s.replace(chr(a) + chr(b), chr(r)) for a # b: every occurrence of
\* the pair is replaced (computed by halves, never cutting a pair in two)
RECURSIVE Replace2(_, _, _, _)
Replace2(s, a, b, r) ==
    IF Len(s) < 2 THEN s
    ELSE IF Len(s) = 2 THEN (IF s[1] = a /\ s[2] = b THEN <<r>> ELSE s)
    ELSE LET half == Len(s) \div 2
             mid  == IF s[half] = a /\ s[half + 1] = b THEN half + 1 ELSE half
         IN Replace2(SubSeq(s, 1, mid), a, b, r)
              \o Replace2(SubSeq(s, mid + 1, Len(s)), a, b, r)

EscapeAll(d) ==
    Replace1(Replace1(d, EscapeByte, <<EscapeByte, EscEscape>>),
             StartByte, <<EscapeByte, EscStart>>)

\* the bytes Write hands to the port for data (lines 289-292)
WireBytes(d) ==
    IF d # <<>> /\ d[1] = StartByte
    THEN <<StartByte>> \o EscapeAll(Tail(d))
    ELSE EscapeAll(d)

\* the unescaping of GetPacket's return statement (line 346)
Unescape(d) ==
    Replace2(Replace2(d, EscapeByte, EscStart, StartByte),
             EscapeByte, EscEscape, EscapeByte)

Count(s, b) == Cardinality({i \in 1..Len(s) : s[i] = b})

\* data[data.find('\x7e'):] when the start byte is in data, '' otherwise (lines 328-331)
FromStartByte(s) ==
    LET at == {i \in 1..Len(s) : s[i] = StartByte}
    IN IF at = {} THEN <<>>
       ELSE SubSeq(s, CHOOSE i \in at : \A j \in at : i <= j, Len(s))

\* totlength as lines 336-340 compute it from data (at least 5 bytes long)
TotLength(d) ==
    LET RxLen == d[4]
    IN IF RxLen = 0 THEN 5 + Count(d, EscapeByte)
       ELSE 7 + RxLen + Count(d, EscapeByte)

Min(a, b) == IF a < b THEN a ELSE b

-----------------------------------------------------------------------------
(* What the transport can deliver to the session *)

RxControls == {getControlByte(ACK, s, a) : s \in 0..1, a \in 0..1}
RxCommands == {0, 33, 39}
Fill(n, v) == [i \in 1..n |-> v]
RxPayloads == {<<12, 0, 16>> \o Fill(16, 200)}

LongFrame(control, payload) ==
    CompileSmallMessage(control, 0, Len(payload)) \o payload \o ComputeChecksum16(payload)

\* the frames the device may send: short frames, the reply to GetDelaySwitches
\* and a long frame with a payload of LongReply bytes
LongReply == 126
DeviceFrames == {CompileSmallMessage(c, k, 0) : c \in RxControls, k \in RxCommands}
                \cup {LongFrame(c, p) : c \in RxControls, p \in RxPayloads}
                \cup {LongFrame(getControlByte(ACK, 0, 0), Fill(LongReply, 0))}

\* the frame d with byte i changed on the line
Corrupt(d, i) == [d EXCEPT ![i] = (@ + 1) % 256]

\* frames that arrive with a wrong checksum: a short reply with its header
\* checksum changed and the reply to GetDelaySwitches with its payload
\* checksum changed
CorruptFrames ==
    {Corrupt(CompileSmallMessage(getControlByte(ACK, 1, 0), 39, 0), 5)}
      \cup {Corrupt(LongFrame(getControlByte(ACK, 0, 1), p), Len(p) + 7) : p \in RxPayloads}

\* What GetPacket returns when the port delivers the escaped bytes w of one
\* frame in full reads: totlength bytes of w, unescaped (lines 336-346)
GetPacketResult(w) == Unescape(SubSeq(w, 1, Min(TotLength(w), Len(w))))

\* the reply to GetFirmwareVersion: the command code and the five characters
\* of the version
FirmwareReplies == {<<16, 86, 49, 46, 48, 50>>}
FirmwareFrames == {LongFrame(c, p) : c \in RxControls, p \in FirmwareReplies}

RxFrames == {GetPacketResult(WireBytes(d)) : d \in DeviceFrames \cup CorruptFrames}
FirmwareRxFrames == {GetPacketResult(WireBytes(d)) : d \in FirmwareFrames}

\* the device answers a firmware query with its version, and only then
Delivered == RxFrames \cup (IF op = "GetFirmwareVersion" THEN FirmwareRxFrames ELSE {})

\* The transport may fail a read (deliver nothing, or a packet that is not the
\* reply to the last command written) at most MaxFaults times in a run, unless
\* it is dead, when every read times out.
MaxFaults == 2

IsReply(d) == ProcessPacket(d).ok = "True"

\* the value GetPacket returns to ProcessPacket: '' after two timeouts, or a packet
Rx == IF dead THEN {<<>>}
      ELSE IF faults < MaxFaults THEN Delivered \cup {<<>>}
      ELSE {d \in Delivered : IsReply(d)}

\* the outcome of the version read loop of OpenConnection (lines 423-439)
VersionReplies == IF dead THEN {"timeout"}
                  ELSE IF faults < MaxFaults THEN {"timeout", "ok", "bad"}
                  ELSE {"ok"}

-----------------------------------------------------------------------------
(* The session after construction (Beamformer.__init__) *)

NumChannels == 16
CoolDown == 2          \* seconds, line 414
ReconnectSleep == 3    \* seconds, line 501

\* the seconds OpenConnection sleeps when elapsed seconds have passed since
\* closetime (lines 414-416)
CoolDownSleep_None(elapsed) == 0

CoolDownSleep(elapsed) == IF elapsed < CoolDown THEN CoolDown - elapsed ELSE 0

\* sinceClose after seconds more have passed
Later(elapsed, seconds) ==
    IF elapsed + seconds > CoolDown THEN CoolDown ELSE elapsed + seconds

InitProto ==
    /\ pc = "idle" /\ caller = "user" /\ op = "none"
    /\ Message = <<>> /\ LastCommand = 0 /\ LastRxCommand = 0
    /\ RxLength = 0 /\ RxMessage = <<>>
    /\ SequenceNumber = 0 /\ AckNumber = 0 /\ rxflags = NoFlags
    /\ ok = "False" /\ tries = 0
    /\ ChannelDelay = Fill(NumChannels, 0) /\ ChannelDelayRead = <<>>
    /\ FirmwareVersion = <<>>
    /\ ret = "None"

InitHist ==
    /\ cmdFrame = <<>> /\ cmdWrites = 0 /\ reconnects = 0
    /\ lastStep = "none" /\ okFrame = <<>> /\ lastRx = <<>>
    /\ readBefore = <<>>

\* line 229: closetime = 0, decades before any time.time()
InitOpen == sinceClose = CoolDown /\ versionGap = <<>> /\ openOutcome = "none"

IdleCodec ==
    /\ gpc = "off" /\ frame = <<>> /\ wire = <<>> /\ data = <<>> /\ inchars = <<>>
    /\ leftovers = <<>> /\ totlength = 5 /\ timeouts = 0 /\ packet = <<>>
    /\ stalled = FALSE /\ reads = <<>>

IdleCk == ckdata = <<>> /\ cks = [c8 |-> <<>>, c16 |-> <<>>, rx8 |-> <<>>]

IdleSolve == spc = "off" /\ args = <<>> /\ work = <<>> /\ result = <<>> /\ calls = <<>>

IdleRace ==
    /\ rpc = <<>> /\ rtable = <<>> /\ polDelay = <<>> /\ rthread = <<>>
    /\ rlock = <<>> /\ rsent = <<>>

IdleThreads ==
    /\ tstate = <<>> /\ tstack = <<>> /\ lockOwner = <<>> /\ lockCount = <<>>
    /\ tfaults = 0 /\ mpc = "off" /\ mret = "None" /\ deadPol = {} /\ cmdFailed = {}

Init == InitProto /\ InitHist /\ InitOpen /\ IdleRace /\ IdleThreads /\ dead \in BOOLEAN /\ faults = 0 /\ IdleCodec /\ IdleCk /\ IdleSolve

-----------------------------------------------------------------------------
(* Steps of the session's methods.  Every step runs with self.lock held by  *)
(* the one thread modelled here.                                            *)

\* assignments ProcessPacket makes for the packet d
ApplyProcessPacket(d) ==
    LET pp == ProcessPacket(d) IN
    /\ rxflags' = pp.flags
    /\ RxMessage' = pp.RxMessage
    /\ SequenceNumber' = pp.SequenceNumber
    /\ AckNumber' = pp.AckNumber
    /\ RxLength' = pp.RxLength
    /\ LastRxCommand' = pp.LastRxCommand
    /\ lastRx' = d
    /\ faults' = IF pp.ok = "True" \/ dead THEN faults ELSE faults + 1

\* the ACK frame built from the numbers as they were before the ProcessPacket
\* of the same step
SendAck_BeforeProcess ==
    /\ Message' = CompileSmallMessage(getControlByte(ACK, SequenceNumber, AckNumber), 0, 0)
    /\ LastCommand' = WriteLastCommand(Message')

\* SendAck (lines 490-496), run right after a ProcessPacket of the same step:
\* it builds the ACK frame from the updated numbers, stores it in self.Message
\* and writes it.
SendAck ==
    /\ Message' = CompileSmallMessage(getControlByte(ACK, SequenceNumber', AckNumber'), 0, 0)
    /\ LastCommand' = WriteLastCommand(Message')

\* the AssertionError of ProcessPacket leaves every method on the stack; no
\* caller in the repository catches it, so the calling thread ends there
Raise == pc' = "raised" /\ op' = "none" /\ ret' = "AssertionError"

\* OpenConnection / CloseConnection return to whoever called them
ReturnFromOpen ==
    IF caller = "Reconnect"
    THEN /\ pc' = "dc_loop" /\ reconnects' = reconnects + 1 /\ lastStep' = "reconnect"
    ELSE /\ pc' = "idle" /\ UNCHANGED <<reconnects, lastStep>>

\* a user calls OpenConnection; line 413 reads the clock: any number of
\* seconds may have passed since the session was last used
UserOpenConnection ==
    /\ pc = "idle"
    /\ pc' = "op_version" /\ caller' = "user"
    /\ \E seconds \in 0..CoolDown : sinceClose' = Later(sinceClose, seconds)
    /\ UNCHANGED <<op, Message, LastCommand, LastRxCommand, RxLength, RxMessage,
                   SequenceNumber, AckNumber, rxflags, ok, tries, ChannelDelay,
                   ChannelDelayRead, ret, dead, faults>>
    /\ UNCHANGED <<histVars, versionGap, openOutcome, codecVars, ckVars, solveVars, threadVars, readVars, raceVars>>

\* OpenConnection lines 413-439: cool-down, flush, write the version bytes and
\* read the reply; two empty reads make it return, anything else goes on to SYN.
OpenConnection_Version ==
    /\ pc = "op_version"
    /\ LastCommand' = WriteLastCommand(VersionBytes)
    /\ sinceClose' = Later(sinceClose, CoolDownSleep(sinceClose))
    /\ versionGap' = <<sinceClose, sinceClose'>>
    /\ \E r \in VersionReplies :
         /\ faults' = IF r = "ok" \/ dead THEN faults ELSE faults + 1
         /\ openOutcome' = CASE r = "ok" -> "opening"
                              [] r = "bad" -> "badversion"
                              [] r = "timeout" -> "failed"
         /\ IF r = "timeout"
            THEN ReturnFromOpen
            ELSE /\ pc' = "op_syn" /\ UNCHANGED <<reconnects, lastStep>>
    /\ UNCHANGED <<caller, op, Message, LastRxCommand, RxLength, RxMessage,
                   SequenceNumber, AckNumber, rxflags, ok, tries, ChannelDelay,
                   ChannelDelayRead, ret, dead>>
    /\ UNCHANGED <<cmdFrame, cmdWrites, okFrame, lastRx>>
    /\ UNCHANGED <<codecVars, ckVars, solveVars, threadVars, readVars, raceVars>>

\* OpenConnection lines 440-443: write the SYN frame
OpenConnection_Syn ==
    /\ pc = "op_syn"
    /\ LastCommand' = WriteLastCommand(CompileSmallMessage(getControlByte(SYN, 0, 0), 0, 0))
    /\ pc' = "op_process"
    /\ UNCHANGED <<caller, op, Message, LastRxCommand, RxLength, RxMessage,
                   SequenceNumber, AckNumber, rxflags, ok, tries, ChannelDelay,
                   ChannelDelayRead, ret, dead, faults>>
    /\ UNCHANGED <<histVars, openVars, codecVars, ckVars, solveVars, threadVars, readVars, raceVars>>

\* OpenConnection lines 445-447: ProcessPacket, then SendAck
OpenConnection_Process ==
    /\ pc = "op_process"
    /\ \E d \in Rx :
         /\ ApplyProcessPacket(d)
         /\ openOutcome' = IF openOutcome = "opening" /\ ProcessPacket(d).ok = "True"
                            THEN "ok" ELSE "failed"
         /\ IF ProcessPacket(d).ok = "AssertionError"
            THEN /\ Raise
                 /\ UNCHANGED <<Message, LastCommand, reconnects, lastStep>>
            ELSE /\ SendAck
                 /\ ReturnFromOpen
                 /\ UNCHANGED <<op, ret>>
    /\ UNCHANGED <<caller, ok, tries, ChannelDelay, ChannelDelayRead, dead>>
    /\ UNCHANGED <<cmdFrame, cmdWrites, okFrame>>
    /\ UNCHANGED <<sinceClose, versionGap, codecVars, ckVars, solveVars, threadVars, readVars, raceVars>>

UserCloseConnection ==
    /\ pc = "idle"
    /\ pc' = "cl_write" /\ caller' = "user"
    /\ UNCHANGED <<op, Message, LastCommand, LastRxCommand, RxLength, RxMessage,
                   SequenceNumber, AckNumber, rxflags, ok, tries, ChannelDelay,
                   ChannelDelayRead, ret, dead, faults>>
    /\ UNCHANGED <<histVars, openVars, codecVars, ckVars, solveVars, threadVars, readVars, raceVars>>

\* CloseConnection lines 465-468: write the ACK+FIN frame
CloseConnection_Write ==
    /\ pc = "cl_write"
    /\ LastCommand' = WriteLastCommand(
          CompileSmallMessage(getControlByte(ACK + FIN, SequenceNumber, AckNumber), 0, 0))
    /\ pc' = "cl_process"
    /\ UNCHANGED <<caller, op, Message, LastRxCommand, RxLength, RxMessage,
                   SequenceNumber, AckNumber, rxflags, ok, tries, ChannelDelay,
                   ChannelDelayRead, ret, dead, faults>>
    /\ UNCHANGED <<histVars, openVars, codecVars, ckVars, solveVars, threadVars, readVars, raceVars>>

\* CloseConnection lines 469-474: ProcessPacket, SendAck, record closetime
CloseConnection_Process ==
    /\ pc = "cl_process"
    /\ \E d \in Rx :
         /\ ApplyProcessPacket(d)
         /\ IF ProcessPacket(d).ok = "AssertionError"
            THEN /\ Raise
                 /\ UNCHANGED <<Message, LastCommand, sinceClose>>
            ELSE /\ SendAck
                 /\ sinceClose' = 0
                 /\ pc' = IF caller = "Reconnect" THEN "rc_sleep" ELSE "idle"
                 /\ UNCHANGED <<op, ret>>
    /\ UNCHANGED <<caller, ok, tries, ChannelDelay, ChannelDelayRead, dead>>
    /\ UNCHANGED <<cmdFrame, cmdWrites, reconnects, lastStep, okFrame>>
    /\ UNCHANGED <<versionGap, openOutcome, codecVars, ckVars, solveVars, threadVars, readVars, raceVars>>

\* Reconnect line 501: time.sleep(3), then OpenConnection
Reconnect_Sleep ==
    /\ pc = "rc_sleep"
    /\ sinceClose' = Later(sinceClose, ReconnectSleep)
    /\ pc' = "op_version"
    /\ UNCHANGED <<caller, op, Message, LastCommand, LastRxCommand, RxLength, RxMessage,
                   SequenceNumber, AckNumber, rxflags, ok, tries, ChannelDelay,
                   ChannelDelayRead, ret, dead, faults>>
    /\ UNCHANGED <<histVars, versionGap, openOutcome, codecVars, ckVars, solveVars, threadVars, readVars, raceVars>>


-----------------------------------------------------------------------------
(* Typed commands and DoCommand *)

\* the frames the typed commands store in self.Message
GetDelaySwitchesMessage ==
    CompileSmallMessage(getControlByte(ACK + SO, SequenceNumber, AckNumber), 12, 0)

UpdateDelaysMessage ==
    CompileSmallMessage(getControlByte(ACK + SO, SequenceNumber, AckNumber), 39, 0)

SetDelaySwitchesMessage ==
    LET MessageAddendum == <<33, 0, 16>> \o ChannelDelay
    IN CompileSmallMessage(getControlByte(ACK + EOR, SequenceNumber, AckNumber), 0, 19)
         \o MessageAddendum \o ComputeChecksum16(MessageAddendum)

\* a typed command stores its frame in self.Message and enters DoCommand
\* (ok = False, tries = 0)
EnterDoCommand(name, message) ==
    /\ op' = name
    /\ Message' = message
    /\ ok' = "False" /\ tries' = 0
    /\ pc' = "dc_loop"
    /\ cmdFrame' = message /\ cmdWrites' = 0 /\ reconnects' = 0
    /\ lastStep' = "none" /\ okFrame' = <<>>
    /\ UNCHANGED <<caller, LastCommand, LastRxCommand, RxLength, RxMessage,
                   SequenceNumber, AckNumber, rxflags, ChannelDelay, ChannelDelayRead,
                   ret, dead, faults, lastRx>>
    /\ UNCHANGED <<openVars, codecVars, ckVars, solveVars, threadVars, raceVars>>

GetDelaySwitches ==
    /\ pc = "idle" /\ EnterDoCommand("GetDelaySwitches", GetDelaySwitchesMessage)
    /\ UNCHANGED <<readVars, raceVars>>

UpdateDelays ==
    /\ pc = "idle" /\ EnterDoCommand("UpdateDelays", UpdateDelaysMessage)
    /\ UNCHANGED <<readVars, raceVars>>

SetDelaySwitches ==
    /\ pc = "idle" /\ EnterDoCommand("SetDelaySwitches", SetDelaySwitchesMessage)
    /\ UNCHANGED <<readVars, raceVars>>

\* DoCommand lines 508-510: loop test, tries += 1, Write(self.Message)
DoCommand_Write ==
    /\ pc = "dc_loop"
    /\ ok # "True" /\ tries < MaxTries
    /\ tries' = tries + 1
    /\ LastCommand' = WriteLastCommand(Message)
    /\ cmdWrites' = IF Message = cmdFrame THEN cmdWrites + 1 ELSE cmdWrites
    /\ lastStep' = "attempt"
    /\ pc' = "dc_process"
    /\ UNCHANGED <<caller, op, Message, LastRxCommand, RxLength, RxMessage,
                   SequenceNumber, AckNumber, rxflags, ok, ChannelDelay,
                   ChannelDelayRead, ret, dead, faults>>
    /\ UNCHANGED <<cmdFrame, reconnects, okFrame, lastRx>>
    /\ UNCHANGED <<openVars, codecVars, ckVars, solveVars, threadVars, readVars, raceVars>>

\* DoCommand lines 511-513: ok = ProcessPacket(); if not ok: Reconnect()
DoCommand_Process ==
    /\ pc = "dc_process"
    /\ \E d \in Rx :
         /\ ApplyProcessPacket(d)
         /\ CASE ProcessPacket(d).ok = "AssertionError" ->
                   /\ Raise /\ UNCHANGED <<ok, caller, okFrame>>
              [] ProcessPacket(d).ok = "True" ->
                   /\ ok' = "True" /\ pc' = "dc_loop" /\ okFrame' = Message
                   /\ UNCHANGED <<caller, op, ret>>
              [] OTHER ->
                   /\ ok' = ProcessPacket(d).ok
                   /\ pc' = "cl_write" /\ caller' = "Reconnect"
                   /\ UNCHANGED <<okFrame, op, ret>>
    /\ UNCHANGED <<Message, LastCommand, tries, ChannelDelay, ChannelDelayRead, dead>>
    /\ UNCHANGED <<cmdFrame, cmdWrites, reconnects, lastStep>>
    /\ UNCHANGED <<openVars, codecVars, ckVars, solveVars, threadVars, readVars, raceVars>>

\* DoCommand line 514: the loop ends, ok is returned to the typed command
DoCommand_Return ==
    /\ pc = "dc_loop"
    /\ ~(ok # "True" /\ tries < MaxTries)
    /\ pc' = "dc_done"
    /\ UNCHANGED <<caller, op, Message, LastCommand, LastRxCommand, RxLength, RxMessage,
                   SequenceNumber, AckNumber, rxflags, ok, tries, ChannelDelay,
                   ChannelDelayRead, ret, dead, faults>>
    /\ UNCHANGED <<histVars, openVars, codecVars, ckVars, solveVars, threadVars, readVars, raceVars>>

\* Python's s[3:-2]
Slice3m2(s) == SubSeq(s, 4, Len(s) - 2)

\* DoCommand has returned: its locals ok and tries are gone, and so is the
\* record of what its attempts did
ForgetDoCommand ==
    /\ ok' = "False" /\ tries' = 0
    /\ cmdFrame' = <<>> /\ cmdWrites' = 0 /\ reconnects' = 0
    /\ lastStep' = "none" /\ okFrame' = <<>>

\* the typed command after DoCommand failed: "if not ok: return False"
TypedFail ==
    /\ pc = "dc_done" /\ ok # "True"
    /\ ret' = "False" /\ op' = "none" /\ pc' = "idle"
    /\ ForgetDoCommand
    /\ UNCHANGED <<caller, Message, LastCommand, LastRxCommand, RxLength, RxMessage,
                   SequenceNumber, AckNumber, rxflags, ChannelDelay,
                   ChannelDelayRead, dead, faults>>
    /\ UNCHANGED <<lastRx, openVars, codecVars, ckVars, solveVars, threadVars, readVars, raceVars>>

\* GetDelaySwitches lines 1232-1234
GetDelaySwitches_Done ==
    /\ pc = "dc_done" /\ ok = "True" /\ op = "GetDelaySwitches"
    /\ ChannelDelayRead' = Slice3m2(RxMessage)
    /\ ret' = "True" /\ op' = "none" /\ pc' = "idle"
    /\ ForgetDoCommand
    /\ UNCHANGED <<caller, Message, LastCommand, LastRxCommand, RxLength, RxMessage,
                   SequenceNumber, AckNumber, rxflags, ChannelDelay, dead, faults>>
    /\ UNCHANGED <<lastRx, openVars, codecVars, ckVars, solveVars, threadVars, readVars, raceVars>>

\* UpdateDelays lines 1071-1075 (also when called by SetDelaySwitches, whose
\* lines 1207-1210 pass its result on)
UpdateDelays_Done ==
    /\ pc = "dc_done" /\ ok = "True" /\ op = "UpdateDelays"
    /\ ret' = "True" /\ op' = "none" /\ pc' = "idle"
    /\ ForgetDoCommand
    /\ UNCHANGED <<caller, Message, LastCommand, LastRxCommand, RxLength, RxMessage,
                   SequenceNumber, AckNumber, rxflags, ChannelDelay,
                   ChannelDelayRead, dead, faults>>
    /\ UNCHANGED <<lastRx, openVars, codecVars, ckVars, solveVars, threadVars, readVars, raceVars>>

\* SetDelaySwitches lines 1204-1206: after a successful DoCommand, UpdateDelays()
SetDelaySwitches_Update ==
    /\ pc = "dc_done" /\ ok = "True" /\ op = "SetDelaySwitches"
    /\ EnterDoCommand("UpdateDelays", UpdateDelaysMessage)
    /\ UNCHANGED <<readVars, raceVars>>

Next ==
    \/ UserOpenConnection
    \/ OpenConnection_Version
    \/ OpenConnection_Syn
    \/ OpenConnection_Process
    \/ UserCloseConnection
    \/ CloseConnection_Write
    \/ CloseConnection_Process
    \/ Reconnect_Sleep
    \/ GetDelaySwitches
    \/ UpdateDelays
    \/ SetDelaySwitches
    \/ DoCommand_Write
    \/ DoCommand_Process
    \/ DoCommand_Return
    \/ TypedFail
    \/ GetDelaySwitches_Done
    \/ UpdateDelays_Done
    \/ SetDelaySwitches_Update

Spec == Init /\ [][Next]_vars

-----------------------------------------------------------------------------
(* Typed commands that read a value from the device *)

\* the values the session keeps from its last reads of the device
LastRead == [FirmwareVersion |-> FirmwareVersion, ChannelDelayRead |-> ChannelDelayRead]

\* lines 829-830: command 16 in a short frame
GetFirmwareVersionMessage ==
    CompileSmallMessage(getControlByte(ACK + SO, SequenceNumber, AckNumber), 16, 0)

\* GetFirmwareVersion lines 828-831: the attribute is cleared, then the frame
\* is built and DoCommand is entered
GetFirmwareVersion ==
    /\ pc = "idle"
    /\ readBefore' = LastRead
    /\ FirmwareVersion' = <<>>
    /\ EnterDoCommand("GetFirmwareVersion", GetFirmwareVersionMessage)

\* Python's s[1:6]
Slice1to6(s) == SubSeq(s, 2, Min(6, Len(s)))

\* GetFirmwareVersion lines 835-837
GetFirmwareVersion_Done ==
    /\ pc = "dc_done" /\ ok = "True" /\ op = "GetFirmwareVersion"
    /\ FirmwareVersion' = Slice1to6(RxMessage)
    /\ ret' = "True" /\ op' = "none" /\ pc' = "idle"
    /\ ForgetDoCommand
    /\ UNCHANGED <<caller, Message, LastCommand, LastRxCommand, RxLength, RxMessage,
                   SequenceNumber, AckNumber, rxflags, ChannelDelay, ChannelDelayRead,
                   dead, faults>>
    /\ UNCHANGED <<lastRx, openVars, codecVars, ckVars, solveVars, threadVars, readBefore, raceVars>>

\* GetDelaySwitches lines 1226-1229, with the last-read values at the call
\* recorded
GetDelaySwitches_Read ==
    /\ pc = "idle"
    /\ readBefore' = LastRead
    /\ UNCHANGED FirmwareVersion
    /\ EnterDoCommand("GetDelaySwitches", GetDelaySwitchesMessage)

\* between two commands the device stops answering: from then on every read
\* of the port times out
DeviceDies ==
    /\ pc = "idle" /\ ~dead
    /\ dead' = TRUE
    /\ UNCHANGED <<pc, caller, op, Message, LastCommand, LastRxCommand, RxLength, RxMessage,
                   SequenceNumber, AckNumber, rxflags, ok, tries, ChannelDelay,
                   ChannelDelayRead, ret, faults>>
    /\ UNCHANGED <<histVars, openVars, codecVars, ckVars, solveVars, threadVars, readVars, raceVars>>

InitRead ==
    /\ InitProto /\ InitHist /\ InitOpen /\ IdleRace /\ IdleThreads /\ dead = FALSE /\ faults = 0
    /\ IdleCodec /\ IdleCk /\ IdleSolve

NextRead ==
    \/ GetFirmwareVersion
    \/ GetDelaySwitches_Read
    \/ DoCommand_Write
    \/ DoCommand_Process
    \/ DoCommand_Return
    \/ TypedFail
    \/ GetFirmwareVersion_Done
    \/ GetDelaySwitches_Done
    \/ OpenConnection_Version
    \/ OpenConnection_Syn
    \/ OpenConnection_Process
    \/ CloseConnection_Write
    \/ CloseConnection_Process
    \/ Reconnect_Sleep
    \/ DeviceDies

SpecRead == InitRead /\ [][NextRead]_vars


-----------------------------------------------------------------------------
(* Frame codec: Write and GetPacket at byte level (SpecCodec) *)

\* The frames handed to Write: short frames, and long frames with every
\* payload over CodecBytes of up to MaxPayload bytes or a long payload of
\* LongLengths bytes filled with one byte.
MaxPayload == 2
MaxChunk == 2
CodecBytes == {0, EscEscape, EscStart, EscapeByte, StartByte}
CodecControls == {getControlByte(ACK + EOR, 0, 0), getControlByte(ACK + SO, 1, 1)}
CodecCommands == {0, 12, 39}
LongLengths == {125, 126}

RECURSIVE SeqsUpTo(_, _)
SeqsUpTo(S, n) ==
    IF n = 0 THEN {<<>>}
    ELSE LET shorter == SeqsUpTo(S, n - 1)
         IN shorter \cup {Append(q, b) : q \in {r \in shorter : Len(r) = n - 1}, b \in S}

CodecPayloads ==
    (SeqsUpTo(CodecBytes, MaxPayload) \ {<<>>})
      \cup {Fill(n, v) : n \in LongLengths, v \in {0, EscapeByte}}

CodecFrames ==
    {CompileSmallMessage(c, k, 0) : c \in CodecControls, k \in CodecCommands}
      \cup {LongFrame(c, p) : c \in CodecControls, p \in CodecPayloads}

InitCodec ==
    /\ InitProto /\ InitHist /\ InitOpen /\ IdleRace /\ IdleThreads /\ dead = FALSE /\ faults = 0 /\ IdleCk /\ IdleSolve
    /\ gpc = "write" /\ frame \in CodecFrames
    /\ wire = <<>> /\ data = <<>> /\ inchars = <<>> /\ leftovers = <<>>
    /\ totlength = 5 /\ timeouts = 0 /\ packet = <<>> /\ stalled = FALSE /\ reads = <<>>

\* Write(frame): lines 284-295
Write ==
    /\ gpc = "write"
    /\ LastCommand' = WriteLastCommand(frame)
    /\ wire' = wire \o WireBytes(frame)
    /\ gpc' = "getpacket"
    /\ UNCHANGED <<pc, caller, op, Message, LastRxCommand, RxLength, RxMessage,
                   SequenceNumber, AckNumber, rxflags, ok, tries, ChannelDelay,
                   ChannelDelayRead, ret, dead, faults>>
    /\ UNCHANGED <<frame, data, inchars, leftovers, totlength, timeouts, packet, stalled,
                   reads>>
    /\ UNCHANGED <<histVars, openVars, ckVars, solveVars, threadVars, readVars, raceVars>>

\* GetPacket lines 303-306: the locals before the loop
GetPacket_Enter ==
    /\ gpc = "getpacket"
    /\ data' = <<>> /\ timeouts' = 0 /\ totlength' = 5 /\ inchars' = <<>>
    /\ gpc' = "read" /\ reads' = <<>>
    /\ UNCHANGED <<frame, wire, leftovers, packet, stalled>>
    /\ UNCHANGED <<protoVars, histVars, openVars, ckVars, solveVars, threadVars, readVars, raceVars>>

\* the sizes of the chunk one self.pol.read(n) may return when avail bytes are
\* still to come: all that was asked for, or a short chunk of up to MaxChunk bytes
ChunkSizes(n, avail) ==
    {k \in 1..Min(n, avail) : k = Min(n, avail) \/ k <= MaxChunk}

\* the outcome of one more read, keeping the last two
Noted(outcome) ==
    IF Len(reads) < 2 THEN Append(reads, outcome) ELSE <<reads[2], outcome>>

\* GetPacket lines 310-317: a read that returns nothing
GetPacket_ReadNothing ==
    /\ gpc = "read"
    /\ inchars' = <<>> /\ reads' = Noted("empty")
    /\ timeouts' = timeouts + 1
    /\ stalled' = (stalled \/ wire # <<>>)
    /\ IF timeouts' >= 2
       THEN packet' = <<>> /\ gpc' = "returned"
       ELSE UNCHANGED <<packet, gpc>>
    /\ UNCHANGED <<frame, wire, data, leftovers, totlength>>
    /\ UNCHANGED <<protoVars, histVars, openVars, ckVars, solveVars, threadVars, readVars, raceVars>>

\* GetPacket lines 318-346: the rest of the loop body once a read returned the
\* bytes got, rest being what is still to come
GetPacket_Body(got, rest) ==
    LET k     == Len(got)
        held  == got[k] = EscapeByte
        data1 == IF held THEN data \o leftovers \o SubSeq(got, 1, k - 1)
                         ELSE data \o leftovers \o got
        left1 == IF held THEN <<EscapeByte>> ELSE <<>>
        data2 == FromStartByte(data1)
    IN /\ inchars' = got /\ reads' = Noted("bytes")
       /\ wire' = rest
       /\ data' = data2
       /\ IF Len(data2) < 5
          THEN /\ leftovers' = left1
               /\ UNCHANGED <<totlength, packet, gpc>>
          ELSE /\ totlength' = TotLength(data2)
               /\ IF Len(data2) >= totlength'
                  THEN /\ leftovers' = SubSeq(data2, totlength' + 1, Len(data2))
                       /\ packet' = Unescape(SubSeq(data2, 1, totlength'))
                       /\ gpc' = "returned"
                  ELSE /\ leftovers' = left1
                       /\ UNCHANGED <<packet, gpc>>
       /\ UNCHANGED <<frame, timeouts, stalled>>
       /\ UNCHANGED <<protoVars, histVars, openVars, ckVars, solveVars, threadVars, readVars, raceVars>>

\* GetPacket lines 310-346: a read that returns bytes of the frame
GetPacket_ReadBytes ==
    /\ gpc = "read"
    /\ \E k \in ChunkSizes(totlength - Len(data), Len(wire)) :
         GetPacket_Body(SubSeq(wire, 1, k), SubSeq(wire, k + 1, Len(wire)))

NextCodec == Write \/ GetPacket_Enter \/ GetPacket_ReadNothing \/ GetPacket_ReadBytes

SpecCodec == InitCodec /\ [][NextCodec]_vars

\* A line that also carries noise: while no frame is in progress a read may
\* return a byte that is not the start byte.  The bytes of the frame stay to come.
NoiseBytes == {0, EscStart}

GetPacket_ReadNoise ==
    /\ gpc = "read" /\ data = <<>>
    /\ \E b \in NoiseBytes : GetPacket_Body(<<b>>, wire)

NextCodecNoisy == NextCodec \/ GetPacket_ReadNoise

\* one return of self.pol.read (line 310), whatever it delivers
GetPacket_Read == GetPacket_ReadNothing \/ GetPacket_ReadBytes \/ GetPacket_ReadNoise

\* The thread inside GetPacket keeps running, and every self.pol.read returns
\* within the port's timeout (pol.timeout = 5, line 230).
SpecCodecLive == InitCodec /\ [][NextCodecNoisy]_vars /\ WF_vars(GetPacket_Read)

-----------------------------------------------------------------------------
(* The checksum functions applied to drawn byte strings (SpecCk) *)

MaxCkLen == 5
HeaderBits == 24
CkBytes == {0, 1, 127, 128, 254, 255}

InitCk ==
    /\ InitProto /\ InitHist /\ InitOpen /\ IdleRace /\ IdleThreads /\ dead = FALSE /\ faults = 0 /\ IdleCodec /\ IdleSolve
    /\ ckdata \in SeqsUpTo(CkBytes, MaxCkLen)
    /\ cks = [c8 |-> <<>>, c16 |-> <<>>, rx8 |-> <<>>]

ComputeChecksum8_Call ==
    /\ cks.c8 = <<>>
    /\ cks' = [cks EXCEPT !.c8 = <<ComputeChecksum8(ckdata)>>]
    /\ UNCHANGED <<ckdata, protoVars, histVars, openVars, codecVars, solveVars, threadVars, readVars, raceVars>>

ComputeChecksum16_Call ==
    /\ cks.c16 = <<>>
    /\ cks' = [cks EXCEPT !.c16 = ComputeChecksum16(ckdata)]
    /\ UNCHANGED <<ckdata, protoVars, histVars, openVars, codecVars, solveVars, threadVars, readVars, raceVars>>

\* the byte b with bit k (0 = least significant) inverted
FlipBit(b, k) == IF (b \div (2 ^ k)) % 2 = 1 THEN b - (2 ^ k) ELSE b + (2 ^ k)

\* the 3-byte header h with one of its 24 bits inverted on the way
FlipHeaderBit(h, k) == [h EXCEPT ![(k \div 8) + 1] = FlipBit(h[(k \div 8) + 1], k % 8)]

\* ProcessPacket line 364 on a packet whose header data[1:4] is ckdata with bit k
\* inverted and whose data[4] is the checksum the sender computed: the
\* checksum the receiver computes and whether the comparison finds a mismatch
ProcessPacket_Checksum8 ==
    /\ Len(ckdata) = 3 /\ cks.c8 # <<>> /\ cks.rx8 = <<>>
    /\ \E k \in 0..(HeaderBits - 1) :
          LET cs == ComputeChecksum8(FlipHeaderBit(ckdata, k))
          IN cks' = [cks EXCEPT !.rx8 = <<k, cs, cs # cks.c8[1]>>]
    /\ UNCHANGED <<ckdata, protoVars, histVars, openVars, codecVars, solveVars, threadVars, readVars, raceVars>>

NextCk == ComputeChecksum8_Call \/ ComputeChecksum16_Call \/ ProcessPacket_Checksum8

SpecCk == InitCk /\ [][NextCk]_vars

-----------------------------------------------------------------------------
(* Delay solver: pointing.calc_delays (SpecSolve)                           *)
(*                                                                          *)
(* Floats are modelled in fixed point.  The unit of every delay is half a   *)
(* picosecond, so MSTEP = 435.0 ps is 870 and KSTEP = 92.0 ps is 184.  A     *)
(* dipole coordinate is given as the time light needs to travel it (x / C), *)
(* in the same unit, which makes the division by C of line 226 exact.  The  *)
(* directions drawn are those whose sines and cosines are -1, 0 or 1.       *)
(* round() is Python 3's (ties to the even integer).                        *)
(* The station has NumBF first-stage beamformers of NumDip dipoles each     *)
(* (16 and 16 in HEXD).                                                     *)

NumBF == 2
NumDip == 2
HEADROOM == 0
MSTEP == 870
KSTEP == 184
MINV1 == -16
MAXV1 == 15
MINV2 == -128
MAXV2 == 127
MAXERRORSTRICT == 533     \* 8.0 / 100 / C = 266.8 ps: abs(err) > 266.8 ps iff err > 533 units
MAXERRORLOOSE == 1334     \* 20.0 / 100 / C = 667.1 ps

BFIDS == 1..NumBF
HEXD == 1..NumDip

Abs(x) == IF x < 0 THEN -x ELSE x
Max(a, b) == IF a > b THEN a ELSE b

\* int(round(num / den)) for den > 0
Round(num, den) ==
    LET q == num \div den
        r == num - q * den
    IN IF 2 * r < den THEN q
       ELSE IF 2 * r > den THEN q + 1
       ELSE IF q % 2 = 0 THEN q ELSE q + 1

\* math.sin and math.cos of an angle in degrees, for the angles drawn
SinDeg(a) == CASE a = 0 -> 0 [] a = 90 -> 1 [] a = -90 -> -1
CosDeg(a) == CASE a = 0 -> 1 [] a = 90 -> 0 [] a = -90 -> 0

RECURSIVE SumOver(_, _)
SumOver(f, n) == IF n = 0 THEN 0 ELSE f[n] + SumOver(f, n - 1)

\* lines 222-228: the geometric delay of dipole dipid of beamformer bfid
\* (BFCORRS is 0.0 for every beamformer)
GeometricDelay(a, bfid, dipid) ==
    LET za == 90 - a.el
        x  == a.offsets[bfid][dipid][1] - a.cpos[1]
        y  == a.offsets[bfid][dipid][2] - a.cpos[2]
        z  == a.offsets[bfid][dipid][3] - a.cpos[3]
    IN (x * SinDeg(a.az) + y * CosDeg(a.az)) * SinDeg(za) + z * CosDeg(za)

\* lines 222-225: the position table after the loop over the dipoles of bfid.
\* x, y and z are locals bound by unpacking the table's tuple, and "x -= cpos[0]"
\* rebinds the local: the table keeps its values.
OffsetsAfter_InPlace(a, bfid) ==
    [a.offsets EXCEPT ![bfid] =
        [i \in HEXD |-> <<@[i][1] - a.cpos[1], @[i][2] - a.cpos[2], @[i][3] - a.cpos[3]>>]]

OffsetsAfter(a, bfid) == a.offsets

\* lines 238-246: the first draft of the Kaelus delay, clamped
NaiveKDelay(sumdelay) ==
    LET k == Round(sumdelay, NumDip * KSTEP)
    IN IF k > MAXV2 - HEADROOM THEN MAXV2 - HEADROOM
       ELSE IF k < MINV2 + HEADROOM THEN MINV2 + HEADROOM
       ELSE k

\* The float sqe of the candidate loop: 9e99 absorbs every sum of squares the
\* model can produce, so the value is pen * 9e99 when pen > 0 and sq otherwise.
SqeLess(a, b) == \/ a.pen < b.pen
                 \/ a.pen = 0 /\ b.pen = 0 /\ a.sq < b.sq

\* line 260: the candidate's fine delay is outside the accepted range
Penalised(idelay1) == ~(MINV1 < idelay1 /\ idelay1 < MAXV1)

\* lines 256-262: sqe of the candidate kidelay over the dipoles 1..n of a beamformer
RECURSIVE CandidateSqe(_, _, _)
CandidateSqe(d, kidelay, n) ==
    IF n = 0 THEN [pen |-> 0, sq |-> 0]
    ELSE LET rest    == CandidateSqe(d, kidelay, n - 1)
             delay1  == d[n] - (kidelay * KSTEP)
             idelay1 == Round(delay1, MSTEP)
             e       == d[n] - ((idelay1 * MSTEP) + (kidelay * KSTEP))
         IN [pen |-> rest.pen + (IF Penalised(idelay1) THEN 1 ELSE 0),
             sq  |-> rest.sq + e * e]

\* lines 254-264: the loop from kidelay to end; the best so far is replaced
\* only by a strictly smaller sqe
RECURSIVE BestCandidate(_, _, _, _, _)
BestCandidate(d, kidelay, end, bestkid, bestsqe) ==
    IF kidelay > end THEN bestkid
    ELSE LET sqe == CandidateSqe(d, kidelay, NumDip)
         IN IF SqeLess(sqe, bestsqe)
            THEN BestCandidate(d, kidelay + 1, end, kidelay, sqe)
            ELSE BestCandidate(d, kidelay + 1, end, bestkid, bestsqe)

\* lines 233-270 for one beamformer whose geometric delays are d: the Kaelus
\* delay chosen and delay2 as the fraction num / NumDip
SecondStage_NoClamp(a, d) ==
    LET sumdelay == SumOver(d, NumDip)
        k        == Round(sumdelay, NumDip * KSTEP)
    IN [K |-> k, delay2num |-> sumdelay]

SecondStage(a, d) ==
    LET sumdelay == SumOver(d, NumDip)
        draft    == Round(sumdelay, NumDip * KSTEP)
        naive    == NaiveKDelay(sumdelay)
        begin    == Max(MINV2 + HEADROOM, naive - 6)
        end      == IF MAXV2 - HEADROOM < naive + 6 THEN MAXV2 - HEADROOM ELSE naive + 6
        bestkid  == BestCandidate(d, begin, end, naive, [pen |-> 1, sq |-> 0])
    IN IF a.optimise
       THEN [K |-> bestkid, delay2num |-> bestkid * KSTEP * NumDip]
       ELSE [K |-> naive,
             delay2num |-> IF naive = draft THEN sumdelay ELSE naive * KSTEP * NumDip]

\* lines 274-280: the first-stage delay of one dipole with geometric delay dl
FirstStage_NoClip(a, dl, delay2num) == Round(dl * NumDip - delay2num, NumDip * MSTEP)

FirstStage(a, dl, delay2num) ==
    LET idelay == Round(dl * NumDip - delay2num, NumDip * MSTEP)
    IN IF a.clipdelays
       THEN (IF idelay < MINV1 THEN MINV1 ELSE IF idelay > MAXV1 THEN MAXV1 ELSE idelay)
       ELSE idelay

NoneNone == [none |-> TRUE, idelays |-> <<>>, K |-> <<>>, delays |-> <<>>,
             delayerrs |-> <<>>, sqe |-> 0, maxerr |-> 0, offcount |-> 0]

\* line 211: the sanity check of the zenith angle
BadElevation(a) == Abs(90 - a.el) > 90

\* lines 292-296: a dipole over the error limit makes a strict call fail
StrictFailure_Never(a, errs) == FALSE

StrictFailure(a, errs) ==
    a.strict /\ \E b \in BFIDS, i \in HEXD : Abs(errs[b][i]) > a.errorlimit

\* lines 297-298: the first-stage value of a dipole over the error limit
Disabled_Kept(a, idelay) == idelay

Disabled(a, idelay) == IF a.clipdelays THEN 16 ELSE idelay

MaxOf(S) == CHOOSE m \in S : \A x \in S : x <= m

\* The position tables drawn: the dipoles of a beamformer lie on a line,
\* spread apart, starting at one of Centres along x.
Centres == {92, 30000, 36918, -40000}
Spreads == {0, 1000, 5500}
Directions == {<<90, 0>>, <<0, 0>>, <<0, 90>>, <<90, 180>>, <<90, -10>>, <<0, 190>>}

Layout(centre, spread) ==
    [b \in BFIDS |-> [i \in HEXD |->
        <<centre[b] + spread * (i - 1), spread * (i - 1) - centre[b], 10 * (b + i)>>]]

InitSolve ==
    /\ InitProto /\ InitHist /\ InitOpen /\ IdleRace /\ IdleThreads /\ dead = FALSE /\ faults = 0 /\ IdleCodec /\ IdleCk
    /\ spc = "call"
    /\ \E centre \in [BFIDS -> Centres], spread \in Spreads,
          dir \in Directions, lim \in {MAXERRORSTRICT, MAXERRORLOOSE},
          st \in BOOLEAN, opt \in BOOLEAN, clip \in BOOLEAN :
         args = [offsets |-> Layout(centre, spread), az |-> dir[1], el |-> dir[2],
                 errorlimit |-> lim, strict |-> st, optimise |-> opt,
                 clipdelays |-> clip, cpos |-> <<0, 0, 0>>]
    /\ work = <<>>
    /\ result = <<>>
    /\ calls = <<>>

\* lines 186-218: the result structures and the sanity check
calc_delays_Check ==
    /\ spc = "call"
    /\ IF BadElevation(args)
       THEN /\ result' = NoneNone /\ spc' = "returned" /\ UNCHANGED work
       ELSE /\ work' = [bfid |-> 1, delays |-> <<>>, idelays |-> <<>>, K |-> <<>>]
            /\ spc' = "loop" /\ UNCHANGED result
    /\ UNCHANGED <<args, calls, protoVars, histVars, openVars, codecVars, ckVars, threadVars, readVars, raceVars>>

\* lines 220-280: one iteration of the loop over the first-stage beamformers
calc_delays_Beamformer ==
    /\ spc = "loop"
    /\ LET bfid   == work.bfid
           d      == [i \in HEXD |-> GeometricDelay(args, bfid, i)]
           stage2 == SecondStage(args, d)
       IN work' = [bfid    |-> bfid + 1,
                   delays  |-> Append(work.delays, d),
                   idelays |-> Append(work.idelays,
                                 [i \in HEXD |-> FirstStage(args, d[i], stage2.delay2num)]),
                   K       |-> Append(work.K, stage2.K)]
    /\ args' = [args EXCEPT !.offsets = OffsetsAfter(args, work.bfid)]
    /\ spc' = IF work.bfid = NumBF THEN "final" ELSE "loop"
    /\ UNCHANGED <<calls, result, protoVars, histVars, openVars, codecVars, ckVars, threadVars, readVars, raceVars>>

\* lines 283-302: the errors, the disabled dipoles and the value returned
calc_delays_Final ==
    /\ spc = "final"
    /\ LET errs == [b \in BFIDS |-> [i \in HEXD |->
                      work.delays[b][i]
                        - ((work.idelays[b][i] * MSTEP) + (work.K[b] * KSTEP))]]
           over == {p \in BFIDS \X HEXD : Abs(errs[p[1]][p[2]]) > args.errorlimit}
           flat == [j \in 1..(NumBF * NumDip) |->
                      errs[((j - 1) \div NumDip) + 1][((j - 1) % NumDip) + 1]]
       IN result' =
            IF StrictFailure(args, errs) THEN NoneNone
            ELSE [none |-> FALSE,
                  idelays |-> [b \in BFIDS |-> [i \in HEXD |->
                                 IF <<b, i>> \in over
                                 THEN Disabled(args, work.idelays[b][i])
                                 ELSE work.idelays[b][i]]],
                  K |-> work.K,
                  delays |-> work.delays,
                  delayerrs |-> errs,
                  sqe |-> SumOver([j \in 1..(NumBF * NumDip) |-> flat[j] * flat[j]],
                                  NumBF * NumDip),
                  maxerr |-> MaxOf({Abs(flat[k]) : k \in 1..(NumBF * NumDip)}),
                  offcount |-> Cardinality(over)]
    /\ spc' = "returned"
    /\ UNCHANGED <<args, calls, work, protoVars, histVars, openVars, codecVars, ckVars, threadVars, readVars, raceVars>>

NextSolve == calc_delays_Check \/ calc_delays_Beamformer \/ calc_delays_Final

SpecSolve == InitSolve /\ [][NextSolve]_vars

(***************************************************************************)
(* calc_delays called again on the same arguments (SpecPure)                *)
(*                                                                          *)
(* The caller keeps the position table and the other argument objects and   *)
(* calls calc_delays MaxCalls times on them, as edacom.py and kaeslave.py do *)
(* with the table read once by getOffsets.  The geometric centre cpos may   *)
(* be off the station centre.                                               *)
(***************************************************************************)

MaxCalls == 2
PureCentres == {92, -40000}
PureSpreads == {0, 5500}
CPositions == {<<0, 0, 0>>, <<92, -870, 10>>}

InitPure ==
    /\ InitProto /\ InitHist /\ InitOpen /\ IdleRace /\ IdleThreads /\ dead = FALSE /\ faults = 0 /\ IdleCodec /\ IdleCk
    /\ spc = "call"
    /\ \E centre \in [BFIDS -> PureCentres], spread \in PureSpreads,
          dir \in Directions, cp \in CPositions,
          st \in BOOLEAN, opt \in BOOLEAN, clip \in BOOLEAN :
         args = [offsets |-> Layout(centre, spread), az |-> dir[1], el |-> dir[2],
                 errorlimit |-> MAXERRORSTRICT, strict |-> st, optimise |-> opt,
                 clipdelays |-> clip, cpos |-> cp]
    /\ work = <<>>
    /\ result = <<>>
    /\ calls = <<>>

\* the caller keeps the value returned and calls again with the same objects
calc_delays_Again ==
    /\ spc = "returned"
    /\ Len(calls) + 1 < MaxCalls
    /\ calls' = Append(calls, result)
    /\ spc' = "call"
    /\ work' = <<>>
    /\ result' = <<>>
    /\ UNCHANGED <<args, protoVars, histVars, openVars, codecVars, ckVars, threadVars, readVars, raceVars>>

NextPure ==
    calc_delays_Check \/ calc_delays_Beamformer \/ calc_delays_Final \/ calc_delays_Again

SpecPure == InitPure /\ [][NextPure]_vars

(***************************************************************************)
(* calc_delays pointing at the zenith (SpecZenith)                          *)
(*                                                                          *)
(* el = 90 and any azimuth; the dipoles have heights above and below the    *)
(* station centre.  A height is given, like x and y, as the time light      *)
(* needs to travel it.                                                      *)
(***************************************************************************)

\* the heights of the dipoles of one beamformer: level; one dipole 217 ps
\* above the mean of 45.5 ps; one dipole far above the others; one dipole far
\* below the others, all of them above what the second stage can hold; two
\* dipoles 15 first-stage steps above and below the others
ZRows == {[i \in HEXD |-> 0],
          [i \in HEXD |-> IF i = 1 THEN 525 ELSE IF i = 2 THEN -343 ELSE 91],
          [i \in HEXD |-> IF i = 1 THEN 40000 ELSE 0],
          [i \in HEXD |-> IF i = 1 THEN 9448 ELSE 37288],
          [i \in HEXD |-> IF i = 1 THEN 13050 ELSE IF i = 2 THEN -13050 ELSE 0]}
ZenithCentres == {92, 30000}
ZenithAzimuths == {0, 90}

ZenithLayout(centre, spread, z) ==
    [b \in BFIDS |-> [i \in HEXD |->
        <<centre + spread * (i - 1), spread * (i - 1) - centre, z[b][i]>>]]

InitZenith ==
    /\ InitProto /\ InitHist /\ InitOpen /\ IdleRace /\ IdleThreads /\ dead = FALSE /\ faults = 0 /\ IdleCodec /\ IdleCk
    /\ spc = "call"
    /\ \E centre \in ZenithCentres, spread \in Spreads, z \in [BFIDS -> ZRows],
          a \in ZenithAzimuths, lim \in {MAXERRORSTRICT, MAXERRORLOOSE},
          st \in BOOLEAN, opt \in BOOLEAN, clip \in BOOLEAN :
         args = [offsets |-> ZenithLayout(centre, spread, z), az |-> a, el |-> 90,
                 errorlimit |-> lim, strict |-> st, optimise |-> opt,
                 clipdelays |-> clip, cpos |-> <<0, 0, 0>>]
    /\ work = <<>>
    /\ result = <<>>
    /\ calls = <<>>

SpecZenith == InitZenith /\ [][NextSolve]_vars

(***************************************************************************)
(* Delay solver: pointing.calc_Kdelays (SpecKSolve)                         *)
(*                                                                          *)
(* The same fixed point as calc_delays.  indelays is a table in the format  *)
(* calc_delays returns, or None.                                            *)
(***************************************************************************)

\* indelays=None, the default of the parameter (line 306)
NoTable == <<>>

\* lines 423-435: the first draft of the Kaelus delay, from the sum of the
\* geometric delays and the sum of the input first-stage delays
KNaiveKDelay(sumdelay, sumin) ==
    LET k == Round(sumdelay - sumin * MSTEP, NumDip * KSTEP)
    IN IF k > MAXV2 - HEADROOM THEN MAXV2 - HEADROOM
       ELSE IF k < MINV2 + HEADROOM THEN MINV2 + HEADROOM
       ELSE k

\* lines 445-447: sqe of the candidate kidelay over the dipoles 1..n
RECURSIVE KCandidateSqe(_, _, _, _)
KCandidateSqe(d, ind, kidelay, n) ==
    IF n = 0 THEN [pen |-> 0, sq |-> 0]
    ELSE LET rest == KCandidateSqe(d, ind, kidelay, n - 1)
             e    == d[n] - ((ind[n] * MSTEP) + (kidelay * KSTEP))
         IN [pen |-> 0, sq |-> rest.sq + e * e]

\* lines 443-449: the loop from kidelay to end
RECURSIVE KBestCandidate(_, _, _, _, _, _)
KBestCandidate(d, ind, kidelay, end, bestkid, bestsqe) ==
    IF kidelay > end THEN bestkid
    ELSE LET sqe == KCandidateSqe(d, ind, kidelay, NumDip)
         IN IF SqeLess(sqe, bestsqe)
            THEN KBestCandidate(d, ind, kidelay + 1, end, kidelay, sqe)
            ELSE KBestCandidate(d, ind, kidelay + 1, end, bestkid, bestsqe)

\* lines 423-455 for one beamformer: the Kaelus delay chosen
KSecondStage(a, d, ind) ==
    LET naive   == KNaiveKDelay(SumOver(d, NumDip), SumOver(ind, NumDip))
        begin   == Max(MINV2 + HEADROOM, naive - 6)
        end     == IF MAXV2 - HEADROOM < naive + 6 THEN MAXV2 - HEADROOM ELSE naive + 6
    IN IF a.optimise
       THEN KBestCandidate(d, ind, begin, end, naive, [pen |-> 1, sq |-> 0])
       ELSE naive

\* lines 413-418: the geometric delay (no BFCORRS term here)
KGeometricDelay(a, bfid, dipid) == GeometricDelay(a, bfid, dipid)

\* lines 470-475: a dipole over the error limit makes a strict call fail
KStrictFailure(a, errs) ==
    a.strict /\ \E b \in BFIDS, i \in HEXD : Abs(errs[b][i]) > a.errorlimit

\* lines 476-478: the first-stage value of a dipole over the error limit
KDisabled(a, idelay) == IF a.clipdelays THEN 16 ELSE idelay

\* The input tables drawn: every beamformer has one of KRows
KRows == {[i \in HEXD |-> 0], [i \in HEXD |-> i - 1],
          [i \in HEXD |-> IF i = 1 THEN 16 ELSE 0]}
KCentres == {92, -20000}
KSpreads == {0, 5500}
KDirections == {<<90, 0>>, <<0, 0>>, <<0, 190>>}

InitKSolve ==
    /\ InitProto /\ InitHist /\ InitOpen /\ IdleRace /\ IdleThreads /\ dead = FALSE /\ faults = 0 /\ IdleCodec /\ IdleCk
    /\ spc = "kcall"
    /\ \E centre \in [BFIDS -> KCentres], spread \in KSpreads,
          dir \in KDirections, ind \in [BFIDS -> KRows] \cup {NoTable},
          st \in BOOLEAN, opt \in BOOLEAN, clip \in BOOLEAN :
         args = [offsets |-> Layout(centre, spread), indelays |-> ind,
                 az |-> dir[1], el |-> dir[2],
                 errorlimit |-> MAXERRORSTRICT, strict |-> st, optimise |-> opt,
                 clipdelays |-> clip, cpos |-> <<0, 0, 0>>]
    /\ work = <<>>
    /\ result = <<>>
    /\ calls = <<>>

\* lines 372-405: the result structures and the two sanity checks
calc_Kdelays_Check ==
    /\ spc = "kcall"
    /\ IF BadElevation(args) \/ args.indelays = NoTable
       THEN /\ result' = NoneNone /\ spc' = "kreturned" /\ UNCHANGED work
       ELSE /\ work' = [bfid |-> 1, delays |-> <<>>, idelays |-> <<>>, K |-> <<>>]
            /\ spc' = "kloop" /\ UNCHANGED result
    /\ UNCHANGED <<args, calls, protoVars, histVars, openVars, codecVars, ckVars, threadVars, readVars, raceVars>>

\* lines 411-458: one iteration of the loop over the first-stage beamformers;
\* line 458 copies the beamformer's input delays
calc_Kdelays_Beamformer ==
    /\ spc = "kloop"
    /\ LET bfid == work.bfid
           d    == [i \in HEXD |-> KGeometricDelay(args, bfid, i)]
       IN work' = [bfid    |-> bfid + 1,
                   delays  |-> Append(work.delays, d),
                   idelays |-> Append(work.idelays, args.indelays[bfid]),
                   K       |-> Append(work.K, KSecondStage(args, d, args.indelays[bfid]))]
    /\ spc' = IF work.bfid = NumBF THEN "kfinal" ELSE "kloop"
    /\ UNCHANGED <<args, calls, result, protoVars, histVars, openVars, codecVars, ckVars, threadVars, readVars, raceVars>>

\* lines 460-482: the errors, the disabled dipoles and the value returned
calc_Kdelays_Final ==
    /\ spc = "kfinal"
    /\ LET errs == [b \in BFIDS |-> [i \in HEXD |->
                      work.delays[b][i]
                        - ((work.idelays[b][i] * MSTEP) + (work.K[b] * KSTEP))]]
           over == {p \in BFIDS \X HEXD : Abs(errs[p[1]][p[2]]) > args.errorlimit}
           flat == [j \in 1..(NumBF * NumDip) |->
                      errs[((j - 1) \div NumDip) + 1][((j - 1) % NumDip) + 1]]
       IN result' =
            IF KStrictFailure(args, errs) THEN NoneNone
            ELSE [none |-> FALSE,
                  idelays |-> [b \in BFIDS |-> [i \in HEXD |->
                                 IF <<b, i>> \in over
                                 THEN KDisabled(args, work.idelays[b][i])
                                 ELSE work.idelays[b][i]]],
                  K |-> work.K,
                  delays |-> work.delays,
                  delayerrs |-> errs,
                  sqe |-> SumOver([j \in 1..(NumBF * NumDip) |-> flat[j] * flat[j]],
                                  NumBF * NumDip),
                  maxerr |-> MaxOf({Abs(flat[k]) : k \in 1..(NumBF * NumDip)}),
                  offcount |-> Cardinality(over)]
    /\ spc' = "kreturned"
    /\ UNCHANGED <<args, calls, work, protoVars, histVars, openVars, codecVars, ckVars, threadVars, readVars, raceVars>>

NextKSolve == calc_Kdelays_Check \/ calc_Kdelays_Beamformer \/ calc_Kdelays_Final

SpecKSolve == InitKSolve /\ [][NextKSolve]_vars

-----------------------------------------------------------------------------
(* Threads and the sessions' locks (SpecThreads)                            *)
(*                                                                          *)
(* kaeslave.py drives the two sessions self.X and self.Y from threads:      *)
(* doPointing starts xthread and ythread on _point_pol and joins them, and  *)
(* another caller may run LogAlarms meanwhile.  Every method of a session   *)
(* is a list of statements; a statement is <<kind, argument, session>>,     *)
(* the session "self" being that of the method's own object:                *)
(*   acquire / release   entering / leaving "with self.lock:"               *)
(*   call                a method call                                      *)
(*   io                  self.pol.write, self.pol.read and flushes          *)
(*   version             the version handshake of OpenConnection            *)
(*   process             ProcessPacket's update of the sequence/ack state   *)
(*   while / ifnot       DoCommand's loop head and its "if not ok"          *)
(*   ifok                SetDelaySwitches' call of UpdateDelays             *)
(*   sleep               time.sleep                                         *)
(* One step of a thread is one statement on a lock, a stream, the           *)
(* sequence/ack state or the clock, with the calls, returns and tests that  *)
(* follow it.                                                               *)
(* The bytes exchanged are those of Spec; here an exchange only succeeds,   *)
(* fails or raises.                                                         *)

Threads == {"xthread", "ythread", "alarms"}
Sessions == {"X", "Y"}
MaxThreadFaults == 1

Write_Code == << <<"acquire", "", "self">>, <<"io", "write", "self">>, <<"release", "", "self">> >>

GetPacket_Code == << <<"acquire", "", "self">>, <<"io", "read", "self">>, <<"release", "", "self">> >>

ProcessPacket_Code ==
    << <<"acquire", "", "self">>, <<"call", "GetPacket", "self">>,
       <<"process", "", "self">>, <<"release", "", "self">> >>

SendAck_Code ==
    << <<"acquire", "", "self">>, <<"call", "Write", "self">>, <<"release", "", "self">> >>

OpenConnection_Code ==
    << <<"acquire", "", "self">>, <<"version", "", "self">>, <<"call", "Write", "self">>,
       <<"call", "ProcessPacket", "self">>, <<"call", "SendAck", "self">>,
       <<"release", "", "self">> >>

CloseConnection_Code ==
    << <<"acquire", "", "self">>, <<"call", "Write", "self">>,
       <<"call", "ProcessPacket", "self">>, <<"call", "SendAck", "self">>,
       <<"release", "", "self">> >>

Reconnect_Code ==
    << <<"call", "CloseConnection", "self">>, <<"sleep", "", "self">>,
       <<"call", "OpenConnection", "self">> >>

\* statement 2 is the loop head, statement 5 goes back to it, statement 6 follows the loop
DoCommand_Code ==
    << <<"acquire", "", "self">>, <<"while", "", "self">>, <<"call", "Write", "self">>,
       <<"call", "ProcessPacket", "self">>, <<"ifnot", "Reconnect", "self">>,
       <<"release", "", "self">> >>

\* UpdateDelays and ReadAlarms: build self.Message, DoCommand
TypedCommand_Code ==
    << <<"acquire", "", "self">>, <<"call", "DoCommand", "self">>, <<"release", "", "self">> >>

\* SetDelaySwitches: build self.Message, DoCommand, and UpdateDelays if it succeeded
SetDelaySwitches_Code ==
    << <<"acquire", "", "self">>, <<"call", "DoCommand", "self">>,
       <<"ifok", "UpdateDelays", "self">>, <<"release", "", "self">> >>

point_pol_Code ==
    << <<"acquire", "", "self">>, <<"call", "OpenConnection", "self">>,
       <<"call", "SetDelaySwitches", "self">>, <<"call", "UpdateDelays", "self">>,
       <<"call", "CloseConnection", "self">>, <<"release", "", "self">> >>

LogAlarms_Code ==
    << <<"acquire", "", "X">>, <<"call", "OpenConnection", "X">>,
       <<"call", "ReadAlarms", "X">>, <<"call", "CloseConnection", "X">>,
       <<"release", "", "X">>,
       <<"acquire", "", "Y">>, <<"call", "OpenConnection", "Y">>,
       <<"call", "ReadAlarms", "Y">>, <<"call", "CloseConnection", "Y">>,
       <<"release", "", "Y">> >>

Code(m) ==
    CASE m = "Write"            -> Write_Code
      [] m = "GetPacket"        -> GetPacket_Code
      [] m = "ProcessPacket"    -> ProcessPacket_Code
      [] m = "SendAck"          -> SendAck_Code
      [] m = "OpenConnection"   -> OpenConnection_Code
      [] m = "CloseConnection"  -> CloseConnection_Code
      [] m = "Reconnect"        -> Reconnect_Code
      [] m = "DoCommand"        -> DoCommand_Code
      [] m = "SetDelaySwitches" -> SetDelaySwitches_Code
      [] m = "UpdateDelays"     -> TypedCommand_Code
      [] m = "ReadAlarms"       -> TypedCommand_Code
      [] m = "_point_pol"       -> point_pol_Code
      [] m = "LogAlarms"        -> LogAlarms_Code

\* a frame of a thread's call stack: the method, its next statement, the
\* session of its object, and DoCommand's locals ok and tries
Frame(m, pol) == [m |-> m, i |-> 1, pol |-> pol, ok |-> "False", tries |-> 0]

Target(t) == IF t = "xthread" THEN Frame("_point_pol", "X")
             ELSE IF t = "ythread" THEN Frame("_point_pol", "Y")
             ELSE Frame("LogAlarms", "none")

Top(t) == tstack[t][Len(tstack[t])]

\* the statement thread t is about to run
Stmt(t) == Code(Top(t).m)[Top(t).i]

At(t, kind) == tstate[t] = "running" /\ Stmt(t)[1] = kind

\* the session the statement of t is about
Pol(t) == IF Stmt(t)[3] = "self" THEN Top(t).pol ELSE Stmt(t)[3]

WithTop(st, f) == [st EXCEPT ![Len(st)] = f]

\* a method call: the caller will go on at its next statement
Called(st, m, pol) ==
    Append(WithTop(st, [st[Len(st)] EXCEPT !.i = @ + 1]), Frame(m, pol))

\* the end of a method: back in the caller, "ok = self.ProcessPacket()",
\* "ok = self.DoCommand()" and SetDelaySwitches' "ok = self.UpdateDelays()"
\* taking the value returned
Returned(st) ==
    LET rest == SubSeq(st, 1, Len(st) - 1)
    IN IF /\ rest # <<>>
          /\ \/ st[Len(st)].m \in {"ProcessPacket", "DoCommand"}
             \/ st[Len(st)].m = "UpdateDelays" /\ rest[Len(rest)].m = "SetDelaySwitches"
       THEN WithTop(rest, [rest[Len(rest)] EXCEPT !.ok = st[Len(st)].ok])
       ELSE rest

\* DoCommand line 508: while (not ok) and (tries < 10); line 509: tries += 1
DoCommand_While(st) ==
    LET f == st[Len(st)]
    IN IF f.ok # "True" /\ f.tries < MaxTries
       THEN WithTop(st, [f EXCEPT !.i = @ + 1, !.tries = @ + 1])
       ELSE WithTop(st, [f EXCEPT !.i = 6])

\* DoCommand lines 512-513: if not ok: self.Reconnect(); then the loop head
DoCommand_IfNotOk(st, m, pol) ==
    LET f == st[Len(st)]
    IN IF f.ok # "True"
       THEN Append(WithTop(st, [f EXCEPT !.i = 2]), Frame(m, pol))
       ELSE WithTop(st, [f EXCEPT !.i = 2])

\* SetDelaySwitches lines 1204-1208: if not ok: return False; ok = self.UpdateDelays()
SetDelaySwitches_IfOk(st, m, pol) ==
    IF st[Len(st)].ok = "True" THEN Called(st, m, pol)
    ELSE WithTop(st, [st[Len(st)] EXCEPT !.i = @ + 1])

\* A thread runs on, through calls, returns and DoCommand's tests, which touch
\* nothing but its own locals, up to its next statement on a lock, a byte
\* stream, the sequence/ack state or the clock.
RECURSIVE Settle(_)
Settle(st) ==
    IF st = <<>> THEN st
    ELSE LET f == st[Len(st)]
         IN IF f.i > Len(Code(f.m)) THEN Settle(Returned(st))
            ELSE LET stmt == Code(f.m)[f.i]
                     pol  == IF stmt[3] = "self" THEN f.pol ELSE stmt[3]
                 IN CASE stmt[1] = "call"  -> Settle(Called(st, stmt[2], pol))
                      [] stmt[1] = "while" -> Settle(DoCommand_While(st))
                      [] stmt[1] = "ifnot" -> Settle(DoCommand_IfNotOk(st, stmt[2], pol))
                      [] stmt[1] = "ifok"  -> Settle(SetDelaySwitches_IfOk(st, stmt[2], pol))
                      [] OTHER -> st

\* thread t goes on with the stack st; it ends when its target has returned
Run(t, st) ==
    /\ tstack' = [tstack EXCEPT ![t] = Settle(st)]
    /\ tstate' = [tstate EXCEPT ![t] = IF Settle(st) = <<>> THEN "finished" ELSE @]

\* t goes to statement j of the method it is in
Goto(t, j) == Run(t, WithTop(tstack[t], [Top(t) EXCEPT !.i = j]))

Advance(t) == Goto(t, Top(t).i + 1)

\* threading.RLock: free, or already held by the thread that asks
CanAcquire_Always(t, s) == TRUE

CanAcquire(t, s) == lockOwner[s] \in {"none", t}

\* thread.join() returns once the thread has ended
Ended_NoWait(t) == TRUE

Ended(t) == tstate[t] \in {"finished", "raised"}

\* doPointing is called; no thread runs yet and both locks are free
ThreadsStart ==
    /\ InitProto /\ InitHist /\ InitOpen /\ IdleRace /\ dead = FALSE /\ faults = 0
    /\ IdleCodec /\ IdleCk /\ IdleSolve
    /\ tstate = [t \in Threads |-> "new"]
    /\ tstack = [t \in Threads |-> <<>>]
    /\ lockOwner = [s \in Sessions |-> "none"]
    /\ lockCount = [s \in Sessions |-> 0]
    /\ tfaults = 0 /\ mpc = "call" /\ mret = "None" /\ cmdFailed = {}

InitThreads == ThreadsStart /\ deadPol = {}

otherVars == <<deadPol, protoVars, histVars, openVars, codecVars, ckVars, solveVars, readVars, raceVars>>

\* doPointing lines 261-276: no delays -> False, simulate -> None, else go on
doPointing_Check ==
    /\ mpc = "call"
    /\ \/ mpc' = "returned" /\ mret' \in {"False", "None"}
       \/ mpc' = "start_x" /\ mret' = mret
    /\ UNCHANGED <<tstate, tstack, lockOwner, lockCount, tfaults, cmdFailed, otherVars>>

\* xthread.start(), ythread.start()
doPointing_Start ==
    /\ mpc \in {"start_x", "start_y"}
    /\ LET t == IF mpc = "start_x" THEN "xthread" ELSE "ythread"
       IN /\ tstate' = [tstate EXCEPT ![t] = "running"]
          /\ tstack' = [tstack EXCEPT ![t] = Settle(<<Target(t)>>)]
    /\ mpc' = IF mpc = "start_x" THEN "start_y" ELSE "join_x"
    /\ UNCHANGED <<lockOwner, lockCount, tfaults, mret, cmdFailed, otherVars>>

\* xthread.join(), ythread.join()
doPointing_Join ==
    /\ mpc \in {"join_x", "join_y"}
    /\ Ended(IF mpc = "join_x" THEN "xthread" ELSE "ythread")
    /\ mpc' = IF mpc = "join_x" THEN "join_y" ELSE "return"
    /\ UNCHANGED <<tstate, tstack, lockOwner, lockCount, tfaults, mret, cmdFailed, otherVars>>

\* return True
doPointing_Return ==
    /\ mpc = "return"
    /\ mpc' = "returned" /\ mret' = "True"
    /\ UNCHANGED <<tstate, tstack, lockOwner, lockCount, tfaults, cmdFailed, otherVars>>

\* another caller's thread enters LogAlarms
LogAlarms_Call ==
    /\ tstate["alarms"] = "new"
    /\ tstate' = [tstate EXCEPT !["alarms"] = "running"]
    /\ tstack' = [tstack EXCEPT !["alarms"] = Settle(<<Target("alarms")>>)]
    /\ UNCHANGED <<lockOwner, lockCount, tfaults, mpc, mret, cmdFailed, otherVars>>

\* "with self.lock:" entered
Thread_Acquire(t) ==
    /\ At(t, "acquire")
    /\ CanAcquire(t, Pol(t))
    /\ lockOwner' = [lockOwner EXCEPT ![Pol(t)] = t]
    /\ lockCount' = [lockCount EXCEPT ![Pol(t)] = @ + 1]
    /\ Advance(t)
    /\ UNCHANGED <<tfaults, mpc, mret, cmdFailed, otherVars>>

\* "with self.lock:" left
Thread_Release(t) ==
    /\ At(t, "release")
    /\ lockCount' = [lockCount EXCEPT ![Pol(t)] = IF @ > 0 THEN @ - 1 ELSE 0]
    /\ lockOwner' = [lockOwner EXCEPT ![Pol(t)] = IF lockCount'[Pol(t)] = 0 THEN "none" ELSE @]
    /\ cmdFailed' = IF /\ Top(t).m \in {"SetDelaySwitches", "UpdateDelays"}
                        /\ Top(t).ok # "True"
                        /\ t \in {"xthread", "ythread"}
                     THEN cmdFailed \cup {t} ELSE cmdFailed
    /\ Advance(t)
    /\ UNCHANGED <<tfaults, mpc, mret, otherVars>>

\* self.pol.write in Write, self.pol.read in GetPacket
Thread_Io(t) ==
    /\ At(t, "io")
    /\ Advance(t)
    /\ UNCHANGED <<lockOwner, lockCount, tfaults, mpc, mret, cmdFailed, otherVars>>

\* OpenConnection lines 413-437: flush, write the version bytes, read the
\* reply; after two timeouts "return ''"
Thread_Version(t) ==
    /\ At(t, "version")
    /\ \/ Pol(t) \notin deadPol /\ Advance(t) /\ tfaults' = tfaults
       \/ Pol(t) \notin deadPol /\ tfaults < MaxThreadFaults /\ tfaults' = tfaults + 1
            /\ Goto(t, 6)
       \/ Pol(t) \in deadPol /\ tfaults' = tfaults /\ Goto(t, 6)
    /\ UNCHANGED <<lockOwner, lockCount, mpc, mret, cmdFailed, otherVars>>

\* ProcessPacket lines 350-409 after GetPacket: sequence/ack state, returns
\* True or False
Thread_Process(t) ==
    /\ At(t, "process")
    /\ \E r \in {"True", "False"} :
         /\ Pol(t) \in deadPol => r = "False"
         /\ (r = "False" /\ Pol(t) \notin deadPol) => tfaults < MaxThreadFaults
         /\ tfaults' = IF r = "False" /\ Pol(t) \notin deadPol THEN tfaults + 1 ELSE tfaults
         /\ Run(t, WithTop(tstack[t], [Top(t) EXCEPT !.i = @ + 1, !.ok = r]))
    /\ UNCHANGED <<lockOwner, lockCount, mpc, mret, cmdFailed, otherVars>>

\* ProcessPacket line 396: the assert fails; the exception leaves every
\* "with self.lock:" of the thread and ends the thread
Thread_Raise(t) ==
    /\ At(t, "process") /\ Pol(t) \notin deadPol
    /\ tfaults < MaxThreadFaults /\ tfaults' = tfaults + 1
    /\ tstack' = [tstack EXCEPT ![t] = <<>>]
    /\ tstate' = [tstate EXCEPT ![t] = "raised"]
    /\ lockOwner' = [s \in Sessions |-> IF lockOwner[s] = t THEN "none" ELSE lockOwner[s]]
    /\ lockCount' = [s \in Sessions |-> IF lockOwner[s] = t THEN 0 ELSE lockCount[s]]
    /\ UNCHANGED <<mpc, mret, cmdFailed, otherVars>>

\* Reconnect line 501: time.sleep(3)
Thread_Sleep(t) ==
    /\ At(t, "sleep")
    /\ Advance(t)
    /\ UNCHANGED <<lockOwner, lockCount, tfaults, mpc, mret, cmdFailed, otherVars>>

NextThreads ==
    \/ doPointing_Check
    \/ doPointing_Start
    \/ doPointing_Join
    \/ doPointing_Return
    \/ LogAlarms_Call
    \/ \E t \in Threads : Thread_Acquire(t)
    \/ \E t \in Threads : Thread_Release(t)
    \/ \E t \in Threads : Thread_Io(t)
    \/ \E t \in Threads : Thread_Version(t)
    \/ \E t \in Threads : Thread_Process(t)
    \/ \E t \in Threads : Thread_Raise(t)
    \/ \E t \in Threads : Thread_Sleep(t)

SpecThreads == InitThreads /\ [][NextThreads]_vars

\* doPointing alone, on devices of which up to MaxDead never answer: every
\* read on their port times out, so every exchange with them fails.
MaxDead == 1

InitPoint ==
    /\ ThreadsStart
    /\ deadPol \in {d \in SUBSET Sessions : Cardinality(d) <= MaxDead}

NextPoint ==
    \/ doPointing_Check
    \/ doPointing_Start
    \/ doPointing_Join
    \/ doPointing_Return
    \/ \E t \in Threads : Thread_Acquire(t)
    \/ \E t \in Threads : Thread_Release(t)
    \/ \E t \in Threads : Thread_Io(t)
    \/ \E t \in Threads : Thread_Version(t)
    \/ \E t \in Threads : Thread_Process(t)
    \/ \E t \in Threads : Thread_Raise(t)
    \/ \E t \in Threads : Thread_Sleep(t)

SpecPoint == InitPoint /\ [][NextPoint]_vars

-----------------------------------------------------------------------------
(* Two doPointing requests at once.  PointingSlave.notify is exposed over   *)
(* Pyro4, whose daemon serves every connection in a thread of its own, and  *)
(* calls self.bf.doPointing without taking a lock (kaeslave.py line 524).   *)

NumRequests == 2
Requests == 1..NumRequests

\* the second-stage delays xdelays['K'] a request may have computed, the same
\* value for every beamformer
KDelayValues == {0, -3}
KTables == {Fill(NumChannels, k) : k \in KDelayValues}

\* lines 278-280: [xdelays['K'][bfid] + 128 for bfid in pointing.HEXD]
ChannelDelayOf(k) == [i \in 1..NumChannels |-> k[i] + 128]

\* every request has its delays (line 272 passed) and simulate is off
InitRace ==
    /\ InitProto /\ InitHist /\ InitOpen /\ IdleThreads /\ dead = FALSE /\ faults = 0
    /\ IdleCodec /\ IdleCk /\ IdleSolve
    /\ rpc = [r \in Requests |-> "storeX"]
    /\ rtable \in [Requests -> KTables]
    /\ polDelay = [s \in Sessions |-> Fill(NumChannels, 0)]
    /\ rthread = [r \in Requests |-> [s \in Sessions |-> "new"]]
    /\ rlock = [s \in Sessions |-> <<>>]
    /\ rsent = [r \in Requests |-> [s \in Sessions |-> <<>>]]

raceRest == <<protoVars, histVars, openVars, codecVars, ckVars, solveVars, threadVars, readVars>>

\* doPointing lines 278-279: self.X.ChannelDelay = ...
doPointing_StoreX(r) ==
    /\ rpc[r] = "storeX"
    /\ polDelay' = [polDelay EXCEPT !["X"] = ChannelDelayOf(rtable[r])]
    /\ rpc' = [rpc EXCEPT ![r] = "storeY"]
    /\ UNCHANGED <<rtable, rthread, rlock, rsent, raceRest>>

\* doPointing line 280: self.Y.ChannelDelay = ...
doPointing_StoreY(r) ==
    /\ rpc[r] = "storeY"
    /\ polDelay' = [polDelay EXCEPT !["Y"] = ChannelDelayOf(rtable[r])]
    /\ rpc' = [rpc EXCEPT ![r] = "start"]
    /\ UNCHANGED <<rtable, rthread, rlock, rsent, raceRest>>

\* doPointing lines 281-287: the sleep until starttime, then both threads are
\* created and started
doPointing_StartThreads(r) ==
    /\ rpc[r] = "start"
    /\ rthread' = [rthread EXCEPT ![r] = [s \in Sessions |-> "lock"]]
    /\ rpc' = [rpc EXCEPT ![r] = "join"]
    /\ UNCHANGED <<rtable, polDelay, rlock, rsent, raceRest>>

\* _point_pol line 337: with pol.lock
point_pol_Acquire(r, s) ==
    /\ rthread[r][s] = "lock" /\ rlock[s] = <<>>
    /\ rlock' = [rlock EXCEPT ![s] = <<r, s>>]
    /\ rthread' = [rthread EXCEPT ![r][s] = "open"]
    /\ UNCHANGED <<rpc, rtable, polDelay, rsent, raceRest>>

\* _point_pol line 338: pol.OpenConnection()
point_pol_Open(r, s) ==
    /\ rthread[r][s] = "open"
    /\ rthread' = [rthread EXCEPT ![r][s] = "set"]
    /\ UNCHANGED <<rpc, rtable, polDelay, rlock, rsent, raceRest>>

\* _point_pol line 339: pol.SetDelaySwitches(), which reads self.ChannelDelay
\* into the frame it sends (beamformer.py lines 1197-1203)
point_pol_SetDelaySwitches(r, s) ==
    /\ rthread[r][s] = "set"
    /\ rsent' = [rsent EXCEPT ![r][s] = polDelay[s]]
    /\ rthread' = [rthread EXCEPT ![r][s] = "update"]
    /\ UNCHANGED <<rpc, rtable, polDelay, rlock, raceRest>>

\* _point_pol line 340: pol.UpdateDelays()
point_pol_UpdateDelays(r, s) ==
    /\ rthread[r][s] = "update"
    /\ rthread' = [rthread EXCEPT ![r][s] = "close"]
    /\ UNCHANGED <<rpc, rtable, polDelay, rlock, rsent, raceRest>>

\* _point_pol line 341: pol.CloseConnection(), and the lock is released
point_pol_Close(r, s) ==
    /\ rthread[r][s] = "close"
    /\ rlock' = [rlock EXCEPT ![s] = <<>>]
    /\ rthread' = [rthread EXCEPT ![r][s] = "finished"]
    /\ UNCHANGED <<rpc, rtable, polDelay, rsent, raceRest>>

\* doPointing lines 288-291: both threads are joined, True is returned
doPointing_JoinThreads(r) ==
    /\ rpc[r] = "join"
    /\ \A s \in Sessions : rthread[r][s] = "finished"
    /\ rpc' = [rpc EXCEPT ![r] = "returned"]
    /\ UNCHANGED <<rtable, polDelay, rthread, rlock, rsent, raceRest>>

NextRace ==
    \/ \E r \in Requests : doPointing_StoreX(r)
    \/ \E r \in Requests : doPointing_StoreY(r)
    \/ \E r \in Requests : doPointing_StartThreads(r)
    \/ \E r \in Requests, s \in Sessions : point_pol_Acquire(r, s)
    \/ \E r \in Requests, s \in Sessions : point_pol_Open(r, s)
    \/ \E r \in Requests, s \in Sessions : point_pol_SetDelaySwitches(r, s)
    \/ \E r \in Requests, s \in Sessions : point_pol_UpdateDelays(r, s)
    \/ \E r \in Requests, s \in Sessions : point_pol_Close(r, s)
    \/ \E r \in Requests : doPointing_JoinThreads(r)

SpecRace == InitRace /\ [][NextRace]_vars

-----------------------------------------------------------------------------
(* Claims about the link state machine, checked under Spec *)

\* C1 (as stated): with a transport on which every read times out, DoCommand
\* returns failure after exactly 10 attempts that each wrote the command frame
\* and exactly 9 reconnect cycles, all of them between attempts.
C1_TenWritesNineReconnects ==
    (dead /\ pc = "dc_done") =>
        /\ tries = 10
        /\ cmdWrites = 10
        /\ reconnects = 9
        /\ lastStep = "attempt"
        /\ ok # "True"

\* C2 (as stated): when DoCommand returns, every attempt it made transmitted
\* the frame the caller built, and if it returns success the response that was
\* accepted carries the command code of that frame.
C2_SuccessMeansCommandAnswered ==
    (pc = "dc_done") =>
        /\ cmdWrites = tries
        /\ (ok = "True" => /\ okFrame = cmdFrame
                           /\ LastRxCommand = WriteLastCommand(cmdFrame))

\* C3: after ProcessPacket has processed a packet of at least 5 bytes, the pair
\* (SequenceNumber, AckNumber) is the one the packet's SN and AN bits select:
\* SN only -> (0, 0); SN and AN -> (1, 0); AN only -> (1, 1); neither -> (0, 1).
C3_SeqAckTable ==
    (Len(lastRx) >= 5) =>
        LET snbit == (lastRx[2] \div 8) % 2
            anbit == (lastRx[2] \div 4) % 2
        IN <<SequenceNumber, AckNumber>> =
             CASE snbit = 1 /\ anbit = 0 -> <<0, 0>>
               [] snbit = 1 /\ anbit = 1 -> <<1, 0>>
               [] snbit = 0 /\ anbit = 1 -> <<1, 1>>
               [] snbit = 0 /\ anbit = 0 -> <<0, 1>>

\* a packet with SN and AN set has been processed in a session whose numbers
\* were (0, 1) when the command was built
C3_Witness ==
    /\ Len(lastRx) >= 5
    /\ (lastRx[2] \div 8) % 2 = 1 /\ (lastRx[2] \div 4) % 2 = 1
    /\ SequenceNumber = 1 /\ AckNumber = 0
    /\ Len(cmdFrame) >= 5 /\ (cmdFrame[2] \div 8) % 2 = 0 /\ (cmdFrame[2] \div 4) % 2 = 1
    /\ pc = "dc_loop" /\ ok = "True"


\* C13: OpenConnection writes the version bytes no earlier than 2 seconds after
\* the closetime recorded by the most recent CloseConnection, whatever sequence
\* of open, close and reconnect operations came before.
C13_CoolDown ==
    (versionGap # <<>>) => versionGap[2] >= CoolDown

\* a user has called OpenConnection right after CloseConnection returned and the
\* version bytes went out after the cool-down
C13_Witness ==
    /\ versionGap = <<0, CoolDown>>
    /\ caller = "user" /\ pc = "op_syn"

\* C14 (as stated): after an OpenConnection in which a step obtained no timely,
\* valid response, no command frame is written on the session until a close
\* and open cycle has been performed.
C14_NoCommandAfterFailedOpen ==
    (openOutcome = "failed") => ~(pc = "dc_process" /\ tries = 1 /\ Message = cmdFrame)

\* C15 (as stated): when the command code of the response differs from the
\* command just sent, ProcessPacket returns False and DoCommand goes into
\* Reconnect (CloseConnection, pause, OpenConnection) before its next attempt;
\* the response is not counted as success and DoCommand is not left before the
\* retry budget is used.
C15_MismatchRetries ==
    [][ /\ (/\ pc = "dc_process" /\ pc' # "dc_process" /\ Len(lastRx') >= 5
            /\ (IF lastRx'[4] > 0 THEN lastRx'[6] ELSE lastRx'[3]) # LastCommand)
           => (ok' = "False" /\ pc' = "cl_write" /\ caller' = "Reconnect")
        /\ (pc = "dc_loop" /\ pc' = "dc_process" /\ tries >= 1)
           => (ok # "True" /\ lastStep = "reconnect")
        /\ (pc = "dc_loop" /\ pc' = "dc_done")
           => (ok = "True" \/ tries = MaxTries) ]_vars

\* C20 (as stated): SetDelaySwitches and UpdateDelays never change
\* ChannelDelayRead, GetDelaySwitches never changes ChannelDelay, and
\* ChannelDelayRead changes only when a GetDelaySwitches exchange succeeded,
\* that is when the response accepted answers the command-12 frame that
\* GetDelaySwitches built.
C20_TablesIndependent ==
    [][ /\ (op \in {"SetDelaySwitches", "UpdateDelays"})
              => ChannelDelayRead' = ChannelDelayRead
        /\ (op = "GetDelaySwitches") => ChannelDelay' = ChannelDelay
        /\ (ChannelDelayRead' # ChannelDelayRead)
              => (op = "GetDelaySwitches" /\ ok = "True" /\ okFrame = cmdFrame) ]_vars
\* C29 (as stated): OpenConnection writes the SYN frame, and later its ACK
\* frame, only when the version handshake returned the expected reply; after a
\* missing or different reply it is never waiting for the answer to a SYN.
C29_SynOnlyAfterVersion ==
    (pc = "op_process") => openOutcome = "opening"

\* C30: every frame DoCommand writes, on the first attempt and on every
\* retry, has in the SN and AN bits of its control byte the session's
\* SequenceNumber and AckNumber as they are when it is written.
C30_CurrentSeqAck ==
    [][(pc = "dc_loop" /\ pc' = "dc_process") =>
          /\ Len(Message) >= 5
          /\ HasBit(Message[2], SN) = (SequenceNumber = 1)
          /\ HasBit(Message[2], AN) = (AckNumber = 1)]_vars

\* DoCommand has written a frame on a retry, after the responses processed
\* since the command frame was built changed both numbers: the frame written
\* carries the new numbers, the command frame built by the typed command the
\* old ones
C30_Witness ==
    /\ pc = "dc_process" /\ tries >= 2 /\ Len(cmdFrame) >= 5 /\ Len(Message) >= 5
    /\ HasBit(cmdFrame[2], SN) # (SequenceNumber = 1)
    /\ HasBit(cmdFrame[2], AN) # (AckNumber = 1)
    /\ HasBit(Message[2], SN) = (SequenceNumber = 1)
    /\ HasBit(Message[2], AN) = (AckNumber = 1)

\* C31: a response whose header checksum or payload checksum is wrong is not
\* rejected: ProcessPacket sets SequenceNumber and AckNumber from its SN and AN
\* bits, and in DoCommand it counts as success exactly when its command code
\* is the last command sent.
C31_BadChecksumAccepted ==
    [][(/\ pc \in {"dc_process", "op_process", "cl_process"} /\ pc' # pc
        /\ Len(lastRx') >= 5
        /\ HeaderChecksumWrong(lastRx') \/ PayloadChecksumWrong(lastRx'))
       => /\ <<SequenceNumber', AckNumber'>> = SeqAckFromControl(lastRx'[2])
          /\ (pc = "dc_process" /\ pc' # "raised")
               => ((ok' = "True")
                     <=> ((IF lastRx'[4] > 0 THEN lastRx'[6] ELSE lastRx'[3]) = LastCommand))]_vars

\* DoCommand has accepted, as the reply to GetDelaySwitches, a frame whose
\* payload checksum is wrong and whose SN/AN bits changed both numbers
C31_Witness ==
    /\ pc = "dc_loop" /\ ok = "True" /\ op = "GetDelaySwitches"
    /\ Len(lastRx) >= 5 /\ PayloadChecksumWrong(lastRx) /\ ~HeaderChecksumWrong(lastRx)
    /\ <<SequenceNumber, AckNumber>> = SeqAckFromControl(lastRx[2])
    /\ Len(cmdFrame) >= 5
    /\ HasBit(cmdFrame[2], SN) # (SequenceNumber = 1)

-----------------------------------------------------------------------------
(* Claims about the frame codec, checked under SpecCodec *)

\* C4 (as stated): when the transport delivers every byte Write put on the wire,
\* GetPacket returns exactly the frame that was handed to Write.
C4_RoundTrip ==
    (gpc = "returned" /\ ~stalled) => packet = frame

\* C16 (as stated): GetPacket returns the empty result exactly when two
\* consecutive reads returned no bytes; an empty read followed by a read that
\* delivered bytes does not count toward a later timeout.
C16_TimeoutOnConsecutiveEmptyReads ==
    /\ (gpc = "returned" /\ packet = <<>>) => reads = <<"empty", "empty">>
    /\ (gpc \in {"read", "returned"} /\ reads = <<"empty", "empty">>)
          => (gpc = "returned" /\ packet = <<>>)

\* C17 (as stated): GetPacket always returns, with a frame or with the
\* timeout outcome, whatever the reads deliver, noise without a start byte
\* included.
C17_GetPacketReturns == (gpc = "read") ~> (gpc = "returned")

\* C28 (as stated): for every frame put on the wire, reserved byte values
\* included, the frame GetPacket returns has 5 bytes when the frame's length
\* byte is 0 and 7 + length bytes otherwise, and the payload-length assertion
\* of ProcessPacket holds on it.
C28_FrameSizeFromLength ==
    (gpc = "returned" /\ packet # <<>>) =>
        /\ Len(packet) = (IF frame[4] = 0 THEN 5 ELSE 7 + frame[4])
        /\ ProcessPacket(packet).ok # "AssertionError"


-----------------------------------------------------------------------------
(* Claims about the checksums, checked under SpecCk *)

\* C10: with s the sum of the bytes, ComputeChecksum8 yields
\* (s mod 256) + (s >> 8) when s > 255 and 255 - s when s <= 255.
C10_Checksum8Value ==
    (cks.c8 # <<>>) =>
        LET s == SumBytes(ckdata)
        IN cks.c8 = << IF s > 255 THEN (s % 256) + (s \div 256) ELSE 255 - s >>

\* the checksum of a string whose sum overflows has been computed
C10_Witness ==
    /\ Len(ckdata) = 3 /\ SumBytes(ckdata) = 383
    /\ cks.c8 = <<128>>

\* C11 (as stated): for every 3-byte header, the header with any single one of
\* its 24 bits inverted has an 8-bit checksum different from the original
\* header's, so the receiver's comparison finds a mismatch.
C11_BitFlipDetected ==
    (cks.rx8 # <<>>) => (cks.rx8[2] # cks.c8[1] /\ cks.rx8[3])

\* C12 (as stated): ComputeChecksum16 yields the ones' complement of the 16-bit
\* end-around-carry sum of the little-endian words (an odd last byte alone as a
\* low byte), every carry beyond 16 bits folded back, low byte first.
C12_Checksum16Value ==
    (cks.c16 # <<>>) =>
        LET n    == Len(ckdata)
            word(w) == ckdata[2 * w - 1] + (IF 2 * w <= n THEN 256 * ckdata[2 * w] ELSE 0)
            sum  == (IF n >= 1 THEN word(1) ELSE 0) + (IF n >= 3 THEN word(2) ELSE 0)
                    + (IF n >= 5 THEN word(3) ELSE 0) + (IF n >= 7 THEN word(4) ELSE 0)
            f1   == (sum % 65536) + (sum \div 65536)
            f2   == (f1 % 65536) + (f1 \div 65536)
            c    == 65535 - f2
        IN cks.c16 = <<c % 256, c \div 256>>

-----------------------------------------------------------------------------
(* Claims about calc_delays, checked under SpecSolve *)

\* the residual of dipole i of beamformer b as line 285 computes it from the
\* values the loops left behind
Residual(b, i) ==
    work.delays[b][i] - ((work.idelays[b][i] * MSTEP) + (work.K[b] * KSTEP))

\* the fine delay that represents dipole i of beamformer b next to the
\* second-stage delay returned for b
IdealFine(b, i) == Round(result.delays[b][i] - (result.K[b] * KSTEP), MSTEP)

\* C5 (as stated): for every elevation below 0 or above 90 degrees calc_delays
\* returns (None, None), whatever strict, clipdelays and optimise are.
C5_BadElevationFails ==
    (spc = "returned" /\ (args.el < 0 \/ args.el > 90)) => result.none

C7_StrictFailsClean ==
    (/\ spc = "returned" /\ args.strict /\ work # <<>>
     /\ \E b \in BFIDS, i \in HEXD : Abs(Residual(b, i)) > args.errorlimit)
        => result = NoneNone

\* a strict call has failed on a dipole of the last beamformer after dipoles
\* within the limit had been processed
C7_Witness ==
    /\ spc = "returned" /\ args.strict /\ work # <<>>
    /\ Abs(Residual(NumBF, NumDip)) > args.errorlimit
    /\ Abs(Residual(1, 1)) <= args.errorlimit
    /\ result = NoneNone

\* C8: every first-stage value of a table returned with clipdelays true is an
\* integer in [-16, 15] or is 16.
C8_FirstStageRange ==
    (spc = "returned" /\ args.clipdelays /\ ~result.none) =>
        \A b \in BFIDS, i \in HEXD :
            \/ result.idelays[b][i] \in MINV1..MAXV1
            \/ result.idelays[b][i] = 16

\* a clipping call has returned a table holding a value clipped to -16 whose
\* ideal fine delay is below the range, and a disabled dipole
C8_Witness ==
    /\ spc = "returned" /\ args.clipdelays /\ ~result.none
    /\ \E b \in BFIDS, i \in HEXD :
          result.idelays[b][i] = MINV1 /\ IdealFine(b, i) < MINV1
    /\ \E b \in BFIDS, i \in HEXD : result.idelays[b][i] = 16

\* C9: every second-stage value calc_delays returns, with or without
\* optimisation, lies in [-128 + HEADROOM, 127 - HEADROOM].
C9_SecondStageRange ==
    (spc = "returned" /\ ~result.none) =>
        \A b \in BFIDS : result.K[b] \in (MINV2 + HEADROOM)..(MAXV2 - HEADROOM)

\* an optimising call has returned a table for beamformers whose mean delays
\* lie above and below what the second stage can hold
C9_Witness ==
    /\ spc = "returned" /\ ~result.none /\ args.optimise
    /\ result.K[1] = MAXV2 - HEADROOM
    /\ result.delays[1][1] > (MAXV2 - HEADROOM + 1) * KSTEP
    /\ result.K[NumBF] = MINV2 + HEADROOM
    /\ result.delays[NumBF][1] < (MINV2 + HEADROOM - 1) * KSTEP

\* edacom.py line 423: the first-stage code sent for the fine delay v
TileDelay_NoBias(v) == v

TileDelay(v) == v + 16

\* kaeslave.py lines 278-280: the second-stage code sent for the delay k
KaelusDelay(k) == k + 128

\* C22: in every table returned with clipdelays true, each first-stage value
\* plus 16 lies in 0..32 and is 32 exactly for the dipoles disabled for being
\* over the error limit, and each second-stage value plus 128 lies in 0..255.
C22_BiasedCodesFit ==
    (spc = "returned" /\ args.clipdelays /\ ~result.none) =>
        /\ \A b \in BFIDS, i \in HEXD :
              /\ TileDelay(result.idelays[b][i]) \in 0..32
              /\ (TileDelay(result.idelays[b][i]) = 32)
                   <=> (Abs(Residual(b, i)) > args.errorlimit)
        /\ \A b \in BFIDS : KaelusDelay(result.K[b]) \in 0..255

\* a clipping call has returned a table with a disabled dipole (code 32), a
\* dipole at the lowest code 0 and a second-stage delay at the highest code 255
C22_Witness ==
    /\ spc = "returned" /\ args.clipdelays /\ ~result.none
    /\ \E b \in BFIDS, i \in HEXD : TileDelay(result.idelays[b][i]) = 32
    /\ \E b \in BFIDS, i \in HEXD : TileDelay(result.idelays[b][i]) = 0
    /\ \E b \in BFIDS : KaelusDelay(result.K[b]) = 255

-----------------------------------------------------------------------------
(* Claims about calc_Kdelays, checked under SpecKSolve *)

\* C23: calc_Kdelays holds the first stage fixed: in every table it returns,
\* whatever strict and clipdelays are, every dipole's first-stage delay equals
\* the one of the input table.
C23_FirstStageFixed ==
    (spc = "kreturned" /\ ~result.none) =>
        \A b \in BFIDS, i \in HEXD : result.idelays[b][i] = args.indelays[b][i]

-----------------------------------------------------------------------------
(* Claims about repeated calls of calc_delays, checked under SpecPure *)

-----------------------------------------------------------------------------
(* Claims about calc_delays at the zenith, checked under SpecZenith *)

\* C25: for elevation 90 the x and y terms contribute nothing to any dipole's
\* ideal delay (it is the height term alone), and calc_delays returns a table
\* in which the magnitude of every dipole's residual is at most half a step
\* (half the first-stage step MSTEP, the larger of the two steps).
C25_ZenithResiduals ==
    /\ (spc \in {"final", "returned"}) =>
          \A b \in BFIDS, i \in HEXD :
             work.delays[b][i] = args.offsets[b][i][3] - args.cpos[3]
    /\ (spc = "returned") =>
          /\ ~result.none
          /\ \A b \in BFIDS, i \in HEXD : 2 * Abs(result.delayerrs[b][i]) <= MSTEP

\* lines 251-252: the window of candidates around the naive second-stage delay
WindowOf(d) ==
    LET naive == NaiveKDelay(SumOver(d, NumDip))
    IN Max(MINV2 + HEADROOM, naive - 6)
         .. (IF MAXV2 - HEADROOM < naive + 6 THEN MAXV2 - HEADROOM ELSE naive + 6)

\* C26: with optimisation, the second-stage delay chosen for a beamformer is a
\* candidate of the window [naive-6, naive+6] clamped to the legal range whose
\* cost (squared residuals plus penalties) no candidate of the window
\* undercuts, and every lower candidate of the window costs more.
C26_BestInWindow ==
    (spc = "returned" /\ args.optimise /\ work # <<>>) =>
        \A b \in BFIDS :
            LET d       == work.delays[b]
                cost(k) == CandidateSqe(d, k, NumDip)
            IN /\ work.K[b] \in WindowOf(d)
               /\ \A k \in WindowOf(d) :
                     /\ ~SqeLess(cost(k), cost(work.K[b]))
                     /\ (k < work.K[b]) => SqeLess(cost(work.K[b]), cost(k))

\* the fine delay of a dipole with geometric delay dl next to candidate kidelay
\* (lines 258-259)
FineAt(dl, kidelay) == Round(dl - (kidelay * KSTEP), MSTEP)

\* C27: a candidate of the search gets the infinite penalty exactly when one
\* of its fine delays lies outside [-16, 15]; a candidate whose fine delays
\* all lie in -16..15, the boundary values included, is not penalised.
C27_PenaltyIffOutOfRange ==
    (spc = "returned" /\ args.optimise /\ work # <<>>) =>
        \A b \in BFIDS : \A k \in WindowOf(work.delays[b]) :
            (CandidateSqe(work.delays[b], k, NumDip).pen > 0)
               <=> (\E i \in HEXD : FineAt(work.delays[b][i], k) \notin MINV1..MAXV1)

-----------------------------------------------------------------------------
(* Claims about threads and locks, checked under SpecThreads *)

\* thread t is inside a command exchange on session s: in DoCommand between
\* the call of Write and the end of ProcessPacket or of the Reconnect after it
InExchange(t, s) ==
    /\ tstate[t] = "running"
    /\ \E k \in 1..Len(tstack[t]) :
         /\ tstack[t][k].m = "DoCommand" /\ tstack[t][k].pol = s
         /\ tstack[t][k].i \in {4, 5}
            \/ (tstack[t][k].i = 2 /\ k < Len(tstack[t]))

\* thread t is about to use the byte stream of session s or to change its
\* sequence/ack state
AtStream(t, s) ==
    /\ tstate[t] = "running"
    /\ Stmt(t)[1] \in {"io", "version", "process"}
    /\ Pol(t) = s

\* C18: while one thread is inside a command exchange on a session, reconnects
\* of DoCommand included, no other thread reads or writes that session's byte
\* stream or changes its sequence/ack state.
C18_ExchangesSerialized ==
    (mpc # "off") =>
        \A s \in Sessions : \A t \in Threads : \A u \in Threads \ {t} :
            InExchange(t, s) => ~AtStream(u, s)

\* xthread is reconnecting inside DoCommand on X while the LogAlarms thread
\* waits for the lock of X
C18_Witness ==
    /\ mpc # "off"
    /\ InExchange("xthread", "X")
    /\ \E k \in 1..Len(tstack["xthread"]) : tstack["xthread"][k].m = "Reconnect"
    /\ At("alarms", "acquire") /\ Pol("alarms") = "X"
    /\ lockOwner["X"] = "xthread"

-----------------------------------------------------------------------------
(* Claims about doPointing on failing devices, checked under SpecPoint *)

\* C21 (as stated): doPointing returns True only when the tile was pointed:
\* when SetDelaySwitches or UpdateDelays of either polarisation has used its
\* ten tries and returned False, doPointing does not return True.
C21_FailureReachesCaller ==
    (mpc = "returned" /\ mret = "True") => cmdFailed = {}

-----------------------------------------------------------------------------
(* Claims about the error limit of calc_delays, checked under SpecSolve *)

\* the first-stage delay line 275 computes for dipole i of beamformer b,
\* before lines 276-280 clip it
UnclippedFine(b, i) ==
    FirstStage_NoClip(args, work.delays[b][i], SecondStage(args, work.delays[b]).delay2num)

\* C35: with the default error limits, a dipole whose rounded first-stage
\* delay is within -16..15 has a residual of at most half a first-stage step,
\* is not over the error limit (so it fails no strict call) and is not
\* disabled; a dipole is disabled only if that delay was out of range.
C35_InRangeWithinHalfStep ==
    (spc = "returned" /\ work # <<>>) =>
        \A b \in BFIDS, i \in HEXD :
            UnclippedFine(b, i) \in MINV1..MAXV1
              => /\ 2 * Abs(Residual(b, i)) <= MSTEP
                 /\ Abs(Residual(b, i)) <= args.errorlimit
                 /\ ~result.none => result.idelays[b][i] # 16

-----------------------------------------------------------------------------
(* Claims about the short frame *)

\* C33: for every 3-byte header the checksum ComputeChecksum8 returns is one
\* byte in 0..255, so the frame CompileSmallMessage builds from the header
\* is 5 bytes, each in 0..255
C33_ShortFrameIsFiveBytes ==
    (Len(ckdata) = 3 /\ cks.c8 # <<>>)
      => LET message == CompileSmallMessage(ckdata[1], ckdata[2], ckdata[3])
         IN /\ cks.c8[1] \in 0..255
            /\ message = <<StartByte>> \o ckdata \o cks.c8
            /\ Len(message) = 5
            /\ \A i \in 1..Len(message) : message[i] \in 0..255

-----------------------------------------------------------------------------
(* Claims about concurrent doPointing requests *)

-----------------------------------------------------------------------------
(* Claims about typed commands that read device values *)

\* C32: when DoCommand reports failure the typed command returns False and
\* every last-read device value is what it was when the command was called
C32_FailureKeepsLastRead ==
    (pc = "idle" /\ ret = "False" /\ readBefore # <<>>) => LastRead = readBefore

=============================================================================

